---- MODULE Spec2Model ----
(***************************************************************************)
(* A model of the text-editing core of code-editor-engine: LineBuffer and  *)
(* TextDocumentImpl (src/src/language/Extensions.ts), the undoable command *)
(* classes and CommandHistory (src/src/core/CommandSystem.ts) and the      *)
(* document and history handling of CodeEditorEngine                       *)
(* (src/unnamed/part_003).                                                 *)
(*                                                                         *)
(* Strings are sequences of one-character strings.  Objects live in heaps: *)
(* `docs` holds every TextDocumentImpl created so far and `cmds` every     *)
(* UndoableCommand, and a reference is an index into its heap (0 is null). *)
(***************************************************************************)
EXTENDS Integers, Sequences, FiniteSets, TLC

VARIABLES
    docs,          \* heap of TextDocumentImpl objects: [uri, languageId, version, buffer]
    document,      \* CodeEditorEngine._document: index into docs, 0 = null
    selections,    \* CodeEditorEngine._selections
    cmds,          \* heap of UndoableCommand objects
    undoStack,     \* CommandHistory.undoStack: command references, oldest first
    redoStack,     \* CommandHistory.redoStack
    maxStackSize,  \* CommandHistory.maxStackSize
    execLog,       \* history: the commands passed to CommandHistory.execute, in order
    phase,         \* history: shape of the CommandHistory calls made so far
    observed,      \* history: per command, the text before and after its last top-level execute
    lastCall,      \* history: the most recent call, its receiver's prior state and its outcome
    grouper,       \* a CommandGrouper, the timers it has pending and the clock
    groupLog,      \* history: the startGroup / addToGroup calls since the last startGroup
    search,        \* the LineBuffer.findAll call in progress: its arguments and locals
    emitted,       \* history: the events the most recent call emitted, in order
    options,       \* CodeEditorEngine._options
    tokenizer,     \* a Tokenizer: its languageDefinitions and its tokenCache
    emitter,       \* a TypedEventEmitter, its listeners and the emit calls in progress
    host,          \* an ExtensionHost, its extensions and the async calls in progress
    registry       \* CodeEditorEngine: commandRegistry, languageServices, disposables, isDisposed

vars == <<docs, document, selections, cmds, undoStack, redoStack, maxStackSize,
          execLog, phase, observed, lastCall, grouper, groupLog, search, emitted,
          options, tokenizer, emitter, host, registry>>

----------------------------------------------------------------------------
(* Bounds of the model. *)

\* objects the command heap may hold
MaxCmds == 3
\* largest maxStackSize a CommandHistory is constructed with
MaxStack == 2
\* the buffer version up to which mutating calls are explored
MaxVersion == 11
\* children of one composite command
MaxChildren == 2
\* objects an editor creates (documents and commands), buffer version it explores
MaxEditorObjects == 3
MaxEditorVersion == 7
\* buffer version up to which executeCommand is called without an argument its handler needs
MaxLackingVersion == 1
\* LineBuffer called directly: the buffer version up to which mutating calls are explored
MaxBufferVersion == 3
\* largest undoStackSize option an editor is constructed with
MaxUndoOption == 1
\* listener functions made for an emitter, and its emit calls made from outside
MaxListeners == 3
MaxEmits == 2
\* async calls made on an extension host
MaxHostTasks == 4
\* languages createEditor is asked for
MaxLanguages == 2
\* commands that edit a tokenized document
MaxTokenEdits == 2
\* TextDocumentImpl.applyChanges: documents created, changes in one batch, and
\* the in-place edits (getBuffer().replaceText) made to documents in all
MaxDocs == 2
MaxChanges == 2
MaxInPlaceEdits == 1
\* LineBuffer.findAll: the number of ranges up to which its loop is explored
MaxRanges == 4
\* CommandGrouper: command objects created, clock values explored, largest
\* groupingTimeoutMs a grouper is constructed with
MaxGrouperCmds == 4
MaxTime == 4
MaxTimeout == 2
\* direct (history-less) command calls: objects and buffer version explored
MaxDirectCmds == 2
MaxDirectVersion == 7

----------------------------------------------------------------------------
(* Characters, positions and ranges. *)

LF == "\n"
CR == "\r"

Min(a, b) == IF a < b THEN a ELSE b
Max(a, b) == IF a > b THEN a ELSE b

Pos(l, c) == [line |-> l, column |-> c]
Rng(s, e) == [start |-> s, end |-> e]

\* String.prototype.substring(start, end): both clamped into 0..length, swapped if start > end
substring(s, a, b) ==
    LET ca == Max(0, Min(a, Len(s)))
        cb == Max(0, Min(b, Len(s)))
    IN  SubSeq(s, Min(ca, cb) + 1, Max(ca, cb))

\* String.prototype.substring(start)
substringFrom(s, a) == substring(s, a, Len(s))

\* String.prototype.includes, for a search string of one or two characters
includes(s, sub) ==
    \E i \in 1..(Len(s) - Len(sub) + 1) : SubSeq(s, i, i + Len(sub) - 1) = sub

\* String.prototype.split(/\r\n|\r|\n/)
RECURSIVE split(_)
split(text) ==
    IF \A i \in 1..Len(text) : text[i] \notin {CR, LF}
    THEN <<text>>
    ELSE LET i == CHOOSE k \in 1..Len(text) :
                    /\ text[k] \in {CR, LF}
                    /\ \A j \in 1..(k - 1) : text[j] \notin {CR, LF}
             n == IF text[i] = CR /\ i < Len(text) /\ text[i + 1] = LF THEN 2 ELSE 1
         IN  <<SubSeq(text, 1, i - 1)>> \o split(SubSeq(text, i + n, Len(text)))

\* String.prototype.split('\n')
RECURSIVE splitLF(_)
splitLF(text) ==
    IF \A i \in 1..Len(text) : text[i] # LF
    THEN <<text>>
    ELSE LET i == CHOOSE k \in 1..Len(text) :
                    /\ text[k] = LF
                    /\ \A j \in 1..(k - 1) : text[j] # LF
         IN  <<SubSeq(text, 1, i - 1)>> \o splitLF(SubSeq(text, i + 1, Len(text)))

\* Array.prototype.join
RECURSIVE join(_, _)
join(ls, sep) ==
    IF ls = <<>> THEN <<>>
    ELSE IF Len(ls) = 1 THEN ls[1]
    ELSE ls[1] \o sep \o join(Tail(ls), sep)

\* Array.prototype.splice(start, deleteCount, ...items), start and deleteCount >= 0
splice(arr, start, deleteCount, items) ==
    LET s == Min(start, Len(arr))
        d == Min(deleteCount, Len(arr) - s)
    IN  SubSeq(arr, 1, s) \o items \o SubSeq(arr, s + d + 1, Len(arr))

----------------------------------------------------------------------------
(* LineBuffer: [lines, version, lineEndings]. *)

\* A variant of the detection that looks for \r before it looks for \r\n
detectLineEndings_crFirst(content) ==
    IF includes(content, <<CR>>) THEN <<CR>>
    ELSE IF includes(content, <<CR, LF>>) THEN <<CR, LF>>
    ELSE <<LF>>

\* the line-ending detection of LineBuffer.setText
detectLineEndings(content) ==
    IF includes(content, <<CR, LF>>) THEN <<CR, LF>>
    ELSE IF includes(content, <<CR>>) THEN <<CR>>
    ELSE <<LF>>

\* if (this.lines.length === 0) this.lines = ['']
nonEmptyLines(parts) == IF Len(parts) = 0 THEN << <<>> >> ELSE parts

\* A variant of setText that leaves the version as it is
setText_sameVersion(buf, content) ==
    [lines       |-> nonEmptyLines(split(content)),
     version     |-> buf.version,
     lineEndings |-> detectLineEndings(content)]

\* LineBuffer.setText
setText(buf, content) ==
    [lines       |-> nonEmptyLines(split(content)),
     version     |-> buf.version + 1,
     lineEndings |-> detectLineEndings(content)]

\* new LineBuffer(content, lineEnding)
LineBuffer(content, lineEnding) ==
    setText([lines |-> << <<>> >>, version |-> 0, lineEndings |-> lineEnding], content)

\* LineBuffer.getText
getText(buf) == join(buf.lines, buf.lineEndings)

\* LineBuffer.validatePosition
validatePosition(buf, position) ==
    LET line == Max(0, Min(position.line, Len(buf.lines) - 1))
        maxColumn == Len(buf.lines[line + 1])
        column == Max(0, Min(position.column, maxColumn))
    IN  Pos(line, column)

\* the ordering step of LineBuffer.validateRange: swap when start is after end
orderRange(start, end) ==
    IF start.line > end.line \/ (start.line = end.line /\ start.column > end.column)
    THEN Rng(end, start)
    ELSE Rng(start, end)

\* A variant of validateRange that returns the validated ends as given
validateRange_unordered(buf, range) ==
    Rng(validatePosition(buf, range.start), validatePosition(buf, range.end))

\* LineBuffer.validateRange
validateRange(buf, range) ==
    orderRange(validatePosition(buf, range.start), validatePosition(buf, range.end))

\* the body of LineBuffer.getTextRange, for the validated range
textOfValidRange(buf, start, end) ==
    IF start.line = end.line
    THEN substring(buf.lines[start.line + 1], start.column, end.column)
    ELSE join(<<substringFrom(buf.lines[start.line + 1], start.column)>>
              \o SubSeq(buf.lines, start.line + 2, end.line)
              \o <<substring(buf.lines[end.line + 1], 0, end.column)>>,
              buf.lineEndings)

\* const { start, end } = this.validateRange(range)
textOfRange(buf, v) == textOfValidRange(buf, v.start, v.end)

\* LineBuffer.getTextRange
getTextRange(buf, range) == textOfRange(buf, validateRange(buf, range))

\* the single-line branch of LineBuffer.insertText
insertSingleLine(buf, validPosition, text, line) ==
    [buffer |-> [buf EXCEPT
            !.lines[validPosition.line + 1] =
                substring(line, 0, validPosition.column) \o text
                \o substringFrom(line, validPosition.column),
            !.version = @ + 1],
     range |-> Rng(validPosition,
                   Pos(validPosition.line, validPosition.column + Len(text)))]

\* the multi-line branch of LineBuffer.insertText: the line array after the
\* first line is replaced and the middle lines and the last line are spliced in
insertedLines(lines, validPosition, insertLines, n, before, after) ==
    splice(splice([lines EXCEPT ![validPosition.line + 1] = before \o insertLines[1]],
                  validPosition.line + 1, 0, SubSeq(insertLines, 2, n - 1)),
           validPosition.line + n - 1, 0, <<insertLines[n] \o after>>)

insertMultiLine(buf, validPosition, insertLines, n, line) ==
    [buffer |-> [buf EXCEPT
            !.lines = insertedLines(buf.lines, validPosition, insertLines, n,
                                    substring(line, 0, validPosition.column),
                                    substringFrom(line, validPosition.column)),
            !.version = @ + 1],
     range |-> Rng(validPosition,
                   Pos(validPosition.line + n - 1,
                       Len(insertLines[n]) + (IF n = 1 THEN validPosition.column ELSE 0)))]

insertLinesAt(buf, validPosition, text, insertLines) ==
    IF Len(insertLines) = 1
    THEN insertSingleLine(buf, validPosition, text, buf.lines[validPosition.line + 1])
    ELSE insertMultiLine(buf, validPosition, insertLines, Len(insertLines),
                         buf.lines[validPosition.line + 1])

\* A variant of insertText whose returned range starts at the position as given
insertText_rawStart(buf, position, text) ==
    [insertLinesAt(buf, validatePosition(buf, position), text, split(text))
        EXCEPT !.range.start = position]

\* LineBuffer.insertText: the buffer afterwards and the returned range
insertText(buf, position, text) ==
    insertLinesAt(buf, validatePosition(buf, position), text, split(text))

\* A variant of the body of deleteText whose multi-line branch removes every
\* line of the range, the merged line included
deleteValidRange_dropLines(buf, validRange, startLine, endLine) ==
    IF validRange.start.line = validRange.end.line
    THEN [buf EXCEPT
            !.lines[validRange.start.line + 1] =
                substring(startLine, 0, validRange.start.column)
                \o substringFrom(startLine, validRange.end.column),
            !.version = @ + 1]
    ELSE [buf EXCEPT
            !.lines = splice(buf.lines, validRange.start.line,
                             validRange.end.line - validRange.start.line + 1, <<>>),
            !.version = @ + 1]

\* the body of LineBuffer.deleteText, for the validated range
deleteValidRange(buf, validRange, startLine, endLine) ==
    IF validRange.start.line = validRange.end.line
    THEN [buf EXCEPT
            !.lines[validRange.start.line + 1] =
                substring(startLine, 0, validRange.start.column)
                \o substringFrom(startLine, validRange.end.column),
            !.version = @ + 1]
    ELSE [buf EXCEPT
            !.lines = splice([buf.lines EXCEPT ![validRange.start.line + 1] =
                                substring(startLine, 0, validRange.start.column)
                                \o substringFrom(endLine, validRange.end.column)],
                             validRange.start.line + 1,
                             validRange.end.line - validRange.start.line, <<>>),
            !.version = @ + 1]

deleteRange(buf, validRange) ==
    [buffer |-> deleteValidRange(buf, validRange,
                                 buf.lines[validRange.start.line + 1],
                                 buf.lines[validRange.end.line + 1]),
     deletedText |-> getTextRange(buf, validRange)]

\* LineBuffer.deleteText: the buffer afterwards and the returned (deleted) text
deleteText(buf, range) == deleteRange(buf, validateRange(buf, range))

\* LineBuffer.replaceText: deleteText(range), then insertText at the range's own start
replaceText(buf, range, text) ==
    insertText(deleteText(buf, range).buffer, range.start, text)

\* A variant of getLineContent that clamps the line instead of throwing
getLineContent_clamped(buf, line) ==
    [thrown |-> FALSE,
     value |-> buf.lines[Max(0, Min(line, Len(buf.lines) - 1)) + 1]]

\* LineBuffer.getLineContent: the line, or thrown when the line is out of bounds
getLineContent(buf, line) ==
    IF line < 0 \/ line >= Len(buf.lines)
    THEN [thrown |-> TRUE, value |-> <<>>]
    ELSE [thrown |-> FALSE, value |-> buf.lines[line + 1]]

\* LineBuffer.getLineLength: the length of the line and of the line ending
\* after it (the last line has none), or thrown when getLineContent throws
getLineLength(buf, line) ==
    IF getLineContent(buf, line).thrown
    THEN [thrown |-> TRUE, value |-> 0]
    ELSE [thrown |-> FALSE,
          value |-> Len(getLineContent(buf, line).value)
                        + (IF line = Len(buf.lines) - 1 THEN 0 ELSE Len(buf.lineEndings))]

\* the loop of LineBuffer.offsetToPosition from `line` on, and the return after it
RECURSIVE offsetToPositionFrom(_, _, _, _)
offsetToPositionFrom(buf, offset, line, currentOffset) ==
    IF line < Len(buf.lines)
    THEN IF currentOffset + getLineLength(buf, line).value > offset
         THEN Pos(line, offset - currentOffset)
         ELSE offsetToPositionFrom(buf, offset, line + 1,
                                   currentOffset + getLineLength(buf, line).value)
    ELSE Pos(Len(buf.lines) - 1, Len(buf.lines[Len(buf.lines)]))

\* LineBuffer.offsetToPosition
offsetToPosition(buf, offset) == offsetToPositionFrom(buf, offset, 0, 0)

\* the loop of LineBuffer.positionToOffset: the lengths of the lines before `line`
RECURSIVE lengthOfLinesBefore(_, _)
lengthOfLinesBefore(buf, line) ==
    IF line = 0 THEN 0
    ELSE lengthOfLinesBefore(buf, line - 1) + getLineLength(buf, line - 1).value

offsetOfValidPosition(buf, validPosition) ==
    lengthOfLinesBefore(buf, validPosition.line) + validPosition.column

\* LineBuffer.positionToOffset
positionToOffset(buf, position) == offsetOfValidPosition(buf, validatePosition(buf, position))

\* The characters \w matches: [A-Za-z0-9_]
isWordChar(ch) ==
    ch \in {"a", "b", "c", "d", "e", "f", "g", "h", "i", "j", "k", "l", "m",
            "n", "o", "p", "q", "r", "s", "t", "u", "v", "w", "x", "y", "z",
            "A", "B", "C", "D", "E", "F", "G", "H", "I", "J", "K", "L", "M",
            "N", "O", "P", "Q", "R", "S", "T", "U", "V", "W", "X", "Y", "Z",
            "0", "1", "2", "3", "4", "5", "6", "7", "8", "9", "_"}

\* No Range: the null that getWordRangeAtPosition and findNext return
NoMatch == [found |-> FALSE, range |-> Rng(Pos(0, 0), Pos(0, 0))]
Match(range) == [found |-> TRUE, range |-> range]

\* The end of the run of word characters of `line` that starts at index `start`
RECURSIVE wordEnd(_, _)
wordEnd(line, start) ==
    IF start < Len(line) /\ isWordChar(line[start + 1]) THEN wordEnd(line, start + 1)
    ELSE start

\* the while loop of getWordRangeAtPosition: pattern.exec(line) from lastIndex on
RECURSIVE wordRangeFrom(_, _, _)
wordRangeFrom(line, validPosition, lastIndex) ==
    IF lastIndex >= Len(line) THEN NoMatch
    ELSE IF ~isWordChar(line[lastIndex + 1])
         THEN wordRangeFrom(line, validPosition, lastIndex + 1)
    ELSE IF validPosition.column >= lastIndex
            /\ validPosition.column <= wordEnd(line, lastIndex)
         THEN Match(Rng(Pos(validPosition.line, lastIndex),
                        Pos(validPosition.line, wordEnd(line, lastIndex))))
    ELSE wordRangeFrom(line, validPosition, wordEnd(line, lastIndex))

wordRangeInLine(line, validPosition) ==
    IF Len(line) = 0 \/ validPosition.column >= Len(line) THEN NoMatch
    ELSE wordRangeFrom(line, validPosition, 0)

wordRangeAtValidPosition(buf, validPosition) ==
    wordRangeInLine(buf.lines[validPosition.line + 1], validPosition)

\* LineBuffer.getWordRangeAtPosition(position), with the default pattern /\w+/g
getWordRangeAtPosition(buf, position) ==
    wordRangeAtValidPosition(buf, validatePosition(buf, position))

\* Whether `text` holds `searchText` at index `index` (0-based)
matchesAt(text, searchText, index) ==
    /\ index + Len(searchText) <= Len(text)
    /\ SubSeq(text, index + 1, index + Len(searchText)) = searchText

\* pattern.exec(text) with pattern.lastIndex = startOffset, for a literal
\* pattern: the index of the first occurrence at or after startOffset, -1 for none
indexOfFrom(text, searchText, startOffset) ==
    IF \E i \in startOffset..Len(text) : matchesAt(text, searchText, i)
    THEN CHOOSE i \in startOffset..Len(text) :
            /\ matchesAt(text, searchText, i)
            /\ \A j \in startOffset..(i - 1) : ~matchesAt(text, searchText, j)
    ELSE -1

\* the end of LineBuffer.findNext, index being match.index (-1: no match)
matchRange(buf, searchText, index) ==
    IF index < 0 THEN NoMatch
    ELSE Match(Rng(offsetToPosition(buf, index),
                   offsetToPosition(buf, index + Len(searchText))))

\* The characters up to U+00FF that the 'i' flag of a pattern folds, a to z and
\* the accented letters, and, at the same index, their upper-case forms. A
\* string of this module holds no character above U+00FF; of the characters
\* up to U+00FF, the upper-case forms of U+00B5 (micro sign) and U+00FF lie
\* above it and are the form of no other character up to U+00FF, and the
\* upper-case form of U+00DF is two characters, which the flag does not fold:
\* all three are compared as themselves
Cased ==
    <<"a", "b", "c", "d", "e", "f", "g", "h", "i", "j", "k", "l", "m",
      "n", "o", "p", "q", "r", "s", "t", "u", "v", "w", "x", "y", "z",
      "à", "á", "â", "ã", "ä", "å", "æ", "ç", "è", "é", "ê", "ë", "ì",
      "í", "î", "ï", "ð", "ñ", "ò", "ó", "ô", "õ", "ö", "ø", "ù", "ú",
      "û", "ü", "ý", "þ">>
Uppercased ==
    <<"A", "B", "C", "D", "E", "F", "G", "H", "I", "J", "K", "L", "M",
      "N", "O", "P", "Q", "R", "S", "T", "U", "V", "W", "X", "Y", "Z",
      "À", "Á", "Â", "Ã", "Ä", "Å", "Æ", "Ç", "È", "É", "Ê", "Ë", "Ì",
      "Í", "Î", "Ï", "Ð", "Ñ", "Ò", "Ó", "Ô", "Õ", "Ö", "Ø", "Ù", "Ú",
      "Û", "Ü", "Ý", "Þ">>

\* The upper-case form of each folded character
Folded ==
    [ch \in {Cased[i] : i \in 1..Len(Cased)} |->
        Uppercased[CHOOSE i \in 1..Len(Cased) : Cased[i] = ch]]

\* What a pattern with the 'i' flag compares one character as: two characters
\* match without regard to case when they canonicalize to the same character
\* ("e" and "E", "é" and "É"); any other character is compared as itself
Canonicalize(ch) ==
    IF ch \in DOMAIN Folded THEN Folded[ch] ELSE ch

\* A text as a pattern with flags 'gi' (caseSensitive false) or 'g' sees it
flagged(text, caseSensitive) ==
    IF caseSensitive THEN text ELSE [i \in 1..Len(text) |-> Canonicalize(text[i])]

\* LineBuffer.findNext(searchText, startPosition, {caseSensitive}), for a literal
\* search text of letters and line-break characters (wholeWord and regex false)
findNextWith(buf, searchText, startPosition, caseSensitive) ==
    matchRange(buf, searchText,
               indexOfFrom(flagged(getText(buf), caseSensitive),
                           flagged(searchText, caseSensitive),
                           positionToOffset(buf, startPosition)))

\* LineBuffer.findNext(searchText, startPosition), with the default options
findNext(buf, searchText, startPosition) ==
    findNextWith(buf, searchText, startPosition, FALSE)

\* the loop of LineBuffer.findAll from `position` on
RECURSIVE findAllFrom(_, _, _)
foundThen(buf, searchText, m) ==
    IF ~m.found THEN <<>>
    ELSE <<m.range>> \o findAllFrom(buf, searchText, m.range.end)
findAllFrom(buf, searchText, position) ==
    foundThen(buf, searchText, findNext(buf, searchText, position))

\* LineBuffer.findAll(searchText), with the default options, for a non-empty
\* search text of lower-case letters
findAll(buf, searchText) == findAllFrom(buf, searchText, Pos(0, 0))

\* new TextDocumentImpl(uri, languageId, version, content)
TextDocumentImpl(uri, languageId, version, content) ==
    [uri |-> uri, languageId |-> languageId, version |-> version,
     buffer |-> LineBuffer(content, <<LF>>)]

\* The comparator of applyChanges is negative for (a, b): a sorts before b
\* because its range starts after b's
sortsBefore(a, b) ==
    IF a.range.start.line # b.range.start.line
    THEN b.range.start.line - a.range.start.line < 0
    ELSE b.range.start.column - a.range.start.column < 0

\* `sorted` with `change` put before the first element it sorts before
\* (Array.prototype.sort is stable: equal elements keep their input order)
insertChange(sorted, change) ==
    IF \E i \in 1..Len(sorted) : sortsBefore(change, sorted[i])
    THEN splice(sorted,
                (CHOOSE i \in 1..Len(sorted) :
                    /\ sortsBefore(change, sorted[i])
                    /\ \A j \in 1..(i - 1) : ~sortsBefore(change, sorted[j])) - 1,
                0, <<change>>)
    ELSE Append(sorted, change)

\* [...changes].sort(comparator)
RECURSIVE sortedChanges(_)
sortedChanges(changes) ==
    IF changes = <<>> THEN <<>>
    ELSE insertChange(sortedChanges(SubSeq(changes, 1, Len(changes) - 1)),
                      changes[Len(changes)])

\* for (const change of sortedChanges) newBuffer.replaceText(change.range, change.text)
RECURSIVE replaceEach(_, _)
replaceEach(buf, changes) ==
    IF changes = <<>> THEN buf
    ELSE replaceEach(replaceText(buf, changes[1].range, changes[1].text).buffer,
                     Tail(changes))

\* The new document of applyChanges, newBuffer being the buffer after the changes
changedDocument(doc, newBuffer) ==
    TextDocumentImpl(doc.uri, doc.languageId, doc.version + 1, getText(newBuffer))

\* A variant of applyChanges that edits the document's own buffer, not a copy
TextDocumentImpl_applyChanges_inPlace(W, d, changes) ==
    [W EXCEPT !.docs = Append(
        [@ EXCEPT ![d].buffer = replaceEach(@, sortedChanges(changes))],
        changedDocument(W.docs[d],
                        replaceEach(W.docs[d].buffer, sortedChanges(changes))))]

\* TextDocumentImpl.applyChanges on document d: the world with the returned
\* document added as its newest object
TextDocumentImpl_applyChanges(W, d, changes) ==
    [W EXCEPT !.docs = Append(@,
        changedDocument(W.docs[d],
                        replaceEach(LineBuffer(getText(W.docs[d].buffer),
                                               W.docs[d].buffer.lineEndings),
                                    sortedChanges(changes))))]

----------------------------------------------------------------------------
(* Commands.  A command object is a record                                  *)
(*   [kind, document, range, newText, previousText, actualRange, executed,  *)
(*    undone, commands]                                                     *)
(* where TextEditCommand uses document..actualRange and CompositeCommand    *)
(* uses commands (references to its children).  The operations below take   *)
(* and return the world W = [docs, cmds] they act on.                       *)

NoRange == Rng(Pos(0, 0), Pos(0, 0))

\* new TextEditCommand(context, range, newText)
TextEditCommand(doc, range, newText) ==
    [kind |-> "TextEditCommand", document |-> doc, range |-> range, newText |-> newText,
     previousText |-> <<>>, actualRange |-> range,
     executed |-> FALSE, undone |-> FALSE, commands |-> <<>>]

\* new CompositeCommand(id, label, commands)
CompositeCommand(commands) ==
    [kind |-> "CompositeCommand", document |-> 0, range |-> NoRange, newText |-> <<>>,
     previousText |-> <<>>, actualRange |-> NoRange,
     executed |-> FALSE, undone |-> FALSE, commands |-> commands]

\* The state of the execution state machine a command object is in
StateOf(cmd) ==
    IF cmd.executed /\ cmd.undone THEN "Both"
    ELSE IF cmd.executed THEN "Executed"
    ELSE IF cmd.undone THEN "Undone"
    ELSE "Idle"

\* UndoableCommand.markExecuted
markExecuted(W, c) ==
    [W EXCEPT !.cmds[c].executed = TRUE, !.cmds[c].undone = FALSE]

\* A variant of markUndone that leaves the executed flag set
markUndone_keepExecuted(W, c) ==
    [W EXCEPT !.cmds[c].undone = TRUE]

\* UndoableCommand.markUndone
markUndone(W, c) ==
    [W EXCEPT !.cmds[c].executed = FALSE, !.cmds[c].undone = TRUE]

\* the assignments of TextEditCommand.execute, r being replaceText's result
recordEdit(W, c, doc, previousText, r) ==
    markExecuted([W EXCEPT !.docs[doc].buffer = r.buffer,
                           !.cmds[c].previousText = previousText,
                           !.cmds[c].actualRange = r.range], c)

editBuffer(W, c, cmd, buffer) ==
    recordEdit(W, c, cmd.document, getTextRange(buffer, cmd.range),
               replaceText(buffer, cmd.range, cmd.newText))

\* TextEditCommand.execute
TextEditCommand_execute(W, c) ==
    editBuffer(W, c, W.cmds[c], W.docs[W.cmds[c].document].buffer)

\* A variant of TextEditCommand.undo without the `if (!this.executed) return` guard
restoreBuffer_unguarded(W, c, cmd, buffer) ==
    markUndone([W EXCEPT !.docs[cmd.document].buffer =
                    replaceText(buffer, cmd.actualRange, cmd.previousText).buffer], c)

\* the body of TextEditCommand.undo on command object cmd and its buffer
restoreBuffer(W, c, cmd, buffer) ==
    IF ~cmd.executed THEN W
    ELSE markUndone([W EXCEPT !.docs[cmd.document].buffer =
                        replaceText(buffer, cmd.actualRange, cmd.previousText).buffer], c)

\* TextEditCommand.undo
TextEditCommand_undo(W, c) ==
    restoreBuffer(W, c, W.cmds[c], W.docs[W.cmds[c].document].buffer)

RECURSIVE Command_execute(_, _), Command_undo(_, _), Command_redo(_, _)
RECURSIVE executeEach(_, _), undoEach(_, _), redoEach(_, _)

\* for (const command of commands) command.execute()
executeEach(W, commands) ==
    IF commands = <<>> THEN W
    ELSE executeEach(Command_execute(W, Head(commands)), Tail(commands))

\* for (i = commands.length - 1; i >= 0; i--) commands[i].undo()
undoEach(W, commands) ==
    IF commands = <<>> THEN W
    ELSE undoEach(Command_undo(W, commands[Len(commands)]),
                  SubSeq(commands, 1, Len(commands) - 1))

\* for (const command of commands) command.redo()
redoEach(W, commands) ==
    IF commands = <<>> THEN W
    ELSE redoEach(Command_redo(W, Head(commands)), Tail(commands))

\* CompositeCommand.addCommand: the world afterwards and the outcome
CompositeCommand_addCommand(W, c, command) ==
    IF W.cmds[c].executed
    THEN [W |-> W, ret |-> "throw"]
    ELSE [W |-> [W EXCEPT !.cmds[c].commands = Append(@, command)], ret |-> "void"]

\* CompositeCommand.execute
CompositeCommand_execute(W, c) ==
    markExecuted(executeEach(W, W.cmds[c].commands), c)

\* CompositeCommand.undo
CompositeCommand_undo(W, c) ==
    IF ~W.cmds[c].executed THEN W
    ELSE markUndone(undoEach(W, W.cmds[c].commands), c)

\* CompositeCommand.redo
CompositeCommand_redo(W, c) ==
    IF ~W.cmds[c].undone THEN W
    ELSE markExecuted(redoEach(W, W.cmds[c].commands), c)

\* UndoableCommand.redo, which TextEditCommand inherits
UndoableCommand_redo(W, c) ==
    IF W.cmds[c].undone
    THEN Command_execute([W EXCEPT !.cmds[c].undone = FALSE, !.cmds[c].executed = TRUE], c)
    ELSE W

\* command.execute(), dispatched on the object's class
Command_execute(W, c) ==
    IF W.cmds[c].kind = "TextEditCommand"
    THEN TextEditCommand_execute(W, c)
    ELSE CompositeCommand_execute(W, c)

\* command.undo(), dispatched on the object's class
Command_undo(W, c) ==
    IF W.cmds[c].kind = "TextEditCommand"
    THEN TextEditCommand_undo(W, c)
    ELSE CompositeCommand_undo(W, c)

\* command.redo(), dispatched on the object's class
Command_redo(W, c) ==
    IF W.cmds[c].kind = "TextEditCommand"
    THEN UndoableCommand_redo(W, c)
    ELSE CompositeCommand_redo(W, c)

----------------------------------------------------------------------------
(* CommandHistory.  h = [undoStack, redoStack, maxStackSize]; each          *)
(* operation returns the world and the stacks afterwards and its result.   *)

\* CommandHistory.canUndo
canUndo(h) == Len(h.undoStack) > 0

\* CommandHistory.canRedo
canRedo(h) == Len(h.redoStack) > 0

\* A variant of trimStack that drops the newest entry instead of the oldest
trimStack_newest(stack, max) ==
    IF Len(stack) > max THEN SubSeq(stack, 1, Len(stack) - 1) ELSE stack

\* A variant of trimStack that lets the stack grow one entry beyond max
trimStack_late(stack, max) == IF Len(stack) > max + 1 THEN Tail(stack) ELSE stack

\* Trim stack if too large: undoStack.shift()
trimStack(stack, max) == IF Len(stack) > max THEN Tail(stack) ELSE stack

\* this.events.emit(type, {command}): the event, and the stacks as a listener
\* finds them when it is delivered.  A 'history-changed' event carries no
\* command (0); its canUndo and canRedo are those of the stacks
emit(type, command, undo, redo) ==
    [type |-> type, command |-> IF type = "history-changed" THEN 0 ELSE command,
     undoStack |-> undo, redoStack |-> redo]

\* The result r = [W, undoStack, redoStack, ret] of an operation that, at its
\* end, emits events of the types `types` for `command`
emitting(types, command, r) ==
    [W |-> r.W, undoStack |-> r.undoStack, redoStack |-> r.redoStack, ret |-> r.ret,
     events |-> [i \in 1..Len(types) |->
                    emit(types[i], command, r.undoStack, r.redoStack)]]

\* A variant of CommandHistory.execute that keeps the redo stack
CommandHistory_execute_keepRedo(h, W, command) ==
    emitting(<<"command-executed", "history-changed">>, command,
             [W |-> Command_execute(W, command),
              undoStack |-> trimStack(Append(h.undoStack, command), h.maxStackSize),
              redoStack |-> h.redoStack,
              ret |-> "void"])

\* CommandHistory.execute
CommandHistory_execute(h, W, command) ==
    emitting(<<"command-executed", "history-changed">>, command,
             [W |-> Command_execute(W, command),
              undoStack |-> trimStack(Append(h.undoStack, command), h.maxStackSize),
              redoStack |-> <<>>,
              ret |-> "void"])

\* undo() or redo() finding nothing to do: return false
nothingDone(h, W) ==
    [W |-> W, undoStack |-> h.undoStack, redoStack |-> h.redoStack, ret |-> "false",
     events |-> <<>>]

\* A variant of CommandHistory.undo that drops the undone command
CommandHistory_undo_noPush(h, W) ==
    IF ~canUndo(h) THEN nothingDone(h, W)
    ELSE emitting(<<"command-undone", "history-changed">>, h.undoStack[Len(h.undoStack)],
                  [W |-> Command_undo(W, h.undoStack[Len(h.undoStack)]),
                   undoStack |-> SubSeq(h.undoStack, 1, Len(h.undoStack) - 1),
                   redoStack |-> h.redoStack,
                   ret |-> "true"])

\* CommandHistory.undo
CommandHistory_undo(h, W) ==
    IF ~canUndo(h) THEN nothingDone(h, W)
    ELSE emitting(<<"command-undone", "history-changed">>, h.undoStack[Len(h.undoStack)],
                  [W |-> Command_undo(W, h.undoStack[Len(h.undoStack)]),
                   undoStack |-> SubSeq(h.undoStack, 1, Len(h.undoStack) - 1),
                   redoStack |-> Append(h.redoStack, h.undoStack[Len(h.undoStack)]),
                   ret |-> "true"])

\* A variant of CommandHistory.redo that emits 'command-redone' as soon as the
\* command is popped, before it is redone and pushed on the undo stack
CommandHistory_redo_emitFirst(h, W) ==
    IF ~canRedo(h) THEN nothingDone(h, W)
    ELSE [W |-> Command_redo(W, h.redoStack[Len(h.redoStack)]),
          undoStack |-> Append(h.undoStack, h.redoStack[Len(h.redoStack)]),
          redoStack |-> SubSeq(h.redoStack, 1, Len(h.redoStack) - 1),
          ret |-> "true",
          events |-> <<emit("command-redone", h.redoStack[Len(h.redoStack)],
                            h.undoStack, SubSeq(h.redoStack, 1, Len(h.redoStack) - 1)),
                       emit("history-changed", 0,
                            Append(h.undoStack, h.redoStack[Len(h.redoStack)]),
                            SubSeq(h.redoStack, 1, Len(h.redoStack) - 1))>>]

\* CommandHistory.redo
CommandHistory_redo(h, W) ==
    IF ~canRedo(h) THEN nothingDone(h, W)
    ELSE emitting(<<"command-redone", "history-changed">>, h.redoStack[Len(h.redoStack)],
                  [W |-> Command_redo(W, h.redoStack[Len(h.redoStack)]),
                   undoStack |-> Append(h.undoStack, h.redoStack[Len(h.redoStack)]),
                   redoStack |-> SubSeq(h.redoStack, 1, Len(h.redoStack) - 1),
                   ret |-> "true"])

\* A variant of CommandHistory.clear that rolls back the commands it forgets
CommandHistory_clear_rollback(h, W) ==
    emitting(<<"history-changed">>, 0,
             [W |-> undoEach(W, h.undoStack), undoStack |-> <<>>, redoStack |-> <<>>,
              ret |-> "void"])

\* CommandHistory.clear
CommandHistory_clear(h, W) ==
    emitting(<<"history-changed">>, 0,
             [W |-> W, undoStack |-> <<>>, redoStack |-> <<>>, ret |-> "void"])

----------------------------------------------------------------------------
(* Inputs. *)

\* Initial document contents: empty, one line, two lines, two lines with \r\n
InitContents ==
    { <<>>,
      <<"a", "b">>,
      <<"a", "b", LF, "c", "d">>,
      <<"a", CR, LF, "b">> }

\* The edits (range, replacement text) commands are built from: an insertion
\* within a line, a deletion across a line break, a range given end first, and
\* a range that starts past the end of its line, replaced by text with a line break
Edits ==
    { [range |-> Rng(Pos(0, 1), Pos(0, 1)), text |-> <<"x">>],
      [range |-> Rng(Pos(0, 1), Pos(1, 1)), text |-> <<>>],
      [range |-> Rng(Pos(0, 1), Pos(0, 0)), text |-> <<"y">>],
      [range |-> Rng(Pos(0, 9), Pos(1, 0)), text |-> <<"z", LF>>] }

\* Lists of one to MaxChildren edits
EditLists == UNION { [1..n -> Edits] : n \in 1..MaxChildren }

----------------------------------------------------------------------------
(* The observing (history) variables. *)

NoCall == [op |-> "none", cmd |-> 0, from |-> "none", ret |-> "none",
           undoLen |-> 0, redoLen |-> 0]

Call(op, cmd, from, ret) ==
    [op |-> op, cmd |-> cmd, from |-> from, ret |-> ret,
     undoLen |-> Len(undoStack), redoLen |-> Len(redoStack)]

\* The state of the parts a specification does not use: the editor's default
\* options, a tokenizer without languages, and no emitter, extension host or registry
NoTokenizer == [languageDefinitions |-> {}, tokenCache |-> {}]
NoEmitter ==
    [listeners |-> <<>>, onceListeners |-> <<>>, isDisposed |-> FALSE, frames |-> <<>>,
     objects |-> <<>>, disposables |-> <<>>, emits |-> 0]
NoHost ==
    [extensions |-> <<>>, activatedExtensions |-> <<>>, tasks |-> <<>>, isDisposed |-> FALSE]
NoRegistry ==
    [commands |-> {}, languageServices |-> {}, disposables |-> <<>>, isDisposed |-> FALSE]

\* CommandRegistry.commands.has(id) or CodeEditorEngine.languageServices.has(id)
isRegistered(R, item) ==
    IF item.kind = "command" THEN item.id \in R.commands
    ELSE item.id \in R.languageServices

\* CodeEditorEngine.registerCommand and registerLanguageService, for an id
\* that is not registered: the DisposableImpl returned is the last of
\* R.disposables, the disposables the editor's own CompositeDisposable holds
registered(R, item) ==
    IF item.kind = "command"
    THEN [R EXCEPT !.commands = @ \cup {item.id},
                   !.disposables = Append(@, [item |-> item, isDisposed |-> FALSE])]
    ELSE [R EXCEPT !.languageServices = @ \cup {item.id},
                   !.disposables = Append(@, [item |-> item, isDisposed |-> FALSE])]

\* DisposableImpl.dispose of disposable d, which a registration returned:
\* the first call deletes the id, a later one does nothing
disposed(R, d) ==
    IF R.disposables[d].isDisposed THEN R
    ELSE IF R.disposables[d].item.kind = "command"
    THEN [R EXCEPT !.commands = @ \ {R.disposables[d].item.id},
                   !.disposables[d].isDisposed = TRUE]
    ELSE [R EXCEPT !.languageServices = @ \ {R.disposables[d].item.id},
                   !.disposables[d].isDisposed = TRUE]

\* for (const disposable of this.disposables) disposable.dispose()
RECURSIVE disposeEach(_, _)
disposeEach(R, disposables) ==
    IF disposables = <<>> THEN R
    ELSE disposeEach(disposed(R, Head(disposables)), Tail(disposables))

\* DEFAULT_OPTIONS.undoStackSize, which the commandHistory field is constructed with
DEFAULT_undoStackSize == 1000

\* DEFAULT_OPTIONS, of which the model keeps undoStackSize
DEFAULT_OPTIONS == [undoStackSize |-> DEFAULT_undoStackSize]

Unused ==
    /\ options = DEFAULT_OPTIONS
    /\ tokenizer = NoTokenizer
    /\ emitter = NoEmitter
    /\ host = NoHost
    /\ registry = NoRegistry

\* No CommandGrouper in use: no group, no timer handle, no pending timers
NoGrouper ==
    [currentGroup |-> 0, groupTimeout |-> 0, groupingTimeoutMs |-> 0, timers |-> {}, now |-> 0]

\* Nothing recorded about a group: no startGroup yet
NoGroupLog == [group |-> 0, start |-> 0, adds |-> <<>>, added |-> <<>>, autoClosed |-> FALSE]

\* No findAll call in progress
NoSearch ==
    [pc |-> "idle", searchText |-> <<>>, caseSensitive |-> FALSE,
     position |-> Pos(0, 0), ranges |-> <<>>]

NotObserved == [before |-> <<>>, after |-> <<>>, seen |-> FALSE]

World == [docs |-> docs, cmds |-> cmds]
History == [undoStack |-> undoStack, redoStack |-> redoStack, maxStackSize |-> maxStackSize]

\* The text of the open document
Text == getText(docs[document].buffer)

\* The variables a CommandHistory operation's result r = [W, undoStack, redoStack,
\* ret, events] sets
Commit(r) ==
    /\ docs' = r.W.docs
    /\ cmds' = r.W.cmds
    /\ undoStack' = r.undoStack
    /\ redoStack' = r.redoStack
    /\ emitted' = r.events

----------------------------------------------------------------------------
(* Specification Spec: one CommandHistory over one document.  Callers build *)
(* commands with BuiltInCommands and hand them to execute, and call undo,   *)
(* redo and clear in any order.                                             *)

DefaultSelection ==
    [start |-> Pos(0, 0), end |-> Pos(0, 0), anchor |-> Pos(0, 0), active |-> Pos(0, 0),
     isReversed |-> FALSE]

Init ==
    /\ \E content \in InitContents : docs = <<TextDocumentImpl("file:///a", "plaintext", 1, content)>>
    /\ document = 1
    /\ selections = <<DefaultSelection>>
    /\ cmds = <<>>
    /\ undoStack = <<>>
    /\ redoStack = <<>>
    /\ maxStackSize \in 0..MaxStack
    /\ execLog = <<>>
    /\ phase = "executing"
    /\ observed = <<>>
    /\ lastCall = NoCall
    /\ grouper = NoGrouper
    /\ groupLog = NoGroupLog
    /\ search = NoSearch
    /\ emitted = <<>>
    /\ Unused

\* BuiltInCommands.createReplaceTextCommand(context, range, newText)
createReplaceTextCommand(doc, range, newText) == TextEditCommand(doc, range, newText)

\* BuiltInCommands.createInsertTextCommand(context, position, text)
createInsertTextCommand(doc, position, text) == TextEditCommand(doc, Rng(position, position), text)

\* BuiltInCommands.createDeleteTextCommand(context, range)
createDeleteTextCommand(doc, range) == TextEditCommand(doc, range, <<>>)

\* BuiltInCommands.createMultiCursorEditCommand(context, edits): the heap with the
\* children and then the composite appended
createMultiCursorEditCommand(heap, doc, edits) ==
    LET children == [i \in 1..Len(edits) |-> TextEditCommand(doc, edits[i].range, edits[i].text)]
        refs == [i \in 1..Len(edits) |-> Len(heap) + i]
    IN  (heap \o children) \o <<CompositeCommand(refs)>>

\* The top of a stack, 0 when it is empty
Top(stack) == IF stack = <<>> THEN 0 ELSE stack[Len(stack)]

\* The state of command c before a call, "none" for no command
From(c) == IF c = 0 THEN "none" ELSE StateOf(cmds[c])

\* history.execute(c) for the newest object c of a heap that `fresh` new objects
\* were added to, r being the result of CommandHistory.execute
Executed(c, fresh, r) ==
    /\ r.W.docs[document].buffer.version <= MaxVersion
    /\ Commit(r)
    /\ execLog' = Append(execLog, c)
    /\ phase' = IF phase = "executing" THEN "executing" ELSE "other"
    /\ observed' = observed \o [i \in 1..fresh |->
                        IF i < fresh THEN NotObserved
                        ELSE [before |-> Text,
                              after |-> getText(r.W.docs[document].buffer),
                              seen |-> TRUE]]
    /\ lastCall' = Call("history.execute", c, "Idle", r.ret)
    /\ UNCHANGED <<options, tokenizer, emitter, host, registry, search, grouper, groupLog, document, selections, maxStackSize>>

ExecuteNewest(heap, fresh) ==
    Executed(Len(heap), fresh,
             CommandHistory_execute(History, [docs |-> docs, cmds |-> heap], Len(heap)))

\* history.execute(BuiltInCommands.createReplaceTextCommand(context, range, text))
ExecuteTextEdit ==
    \E e \in Edits :
        /\ Len(cmds) + 1 <= MaxCmds
        /\ ExecuteNewest(Append(cmds, createReplaceTextCommand(document, e.range, e.text)), 1)

\* history.execute(BuiltInCommands.createMultiCursorEditCommand(context, edits))
ExecuteMultiCursorEdit ==
    \E edits \in EditLists :
        /\ Len(cmds) + Len(edits) + 1 <= MaxCmds
        /\ ExecuteNewest(createMultiCursorEditCommand(cmds, document, edits), Len(edits) + 1)

Undone(c, r) ==
    /\ r.W.docs[document].buffer.version <= MaxVersion
    /\ Commit(r)
    /\ phase' = IF r.ret = "false" THEN phase
                ELSE IF phase \in {"executing", "undoing"} THEN "undoing"
                ELSE "other"
    /\ lastCall' = Call("history.undo", c, From(c), r.ret)
    /\ UNCHANGED <<options, tokenizer, emitter, host, registry, search, grouper, groupLog, document, selections, maxStackSize, execLog, observed>>

\* history.undo()
Undo == Undone(Top(undoStack), CommandHistory_undo(History, World))

Redone(c, r) ==
    /\ r.W.docs[document].buffer.version <= MaxVersion
    /\ Commit(r)
    /\ phase' = IF r.ret = "false" THEN phase
                ELSE IF phase = "redoing" \/ (phase = "undoing" /\ undoStack = <<>>)
                     THEN "redoing"
                ELSE "other"
    /\ lastCall' = Call("history.redo", c, From(c), r.ret)
    /\ UNCHANGED <<options, tokenizer, emitter, host, registry, search, grouper, groupLog, document, selections, maxStackSize, execLog, observed>>

\* history.redo()
Redo == Redone(Top(redoStack), CommandHistory_redo(History, World))

Cleared(r) ==
    /\ Commit(r)
    /\ phase' = "other"
    /\ lastCall' = Call("history.clear", 0, "none", r.ret)
    /\ UNCHANGED <<options, tokenizer, emitter, host, registry, search, grouper, groupLog, document, selections, maxStackSize, execLog, observed>>

\* history.clear()
Clear == Cleared(CommandHistory_clear(History, World))

Next ==
    \/ ExecuteTextEdit
    \/ ExecuteMultiCursorEdit
    \/ Undo
    \/ Redo
    \/ Clear

Spec == Init /\ [][Next]_vars

----------------------------------------------------------------------------
(* Claims about CommandHistory, checked under Spec. *)

\* The N commands executed so far were all executed before any undo, and N <= maxStackSize
WithinStack == Len(execLog) <= maxStackSize

\* C1 (as claimed): after N <= maxStackSize text-edit commands executed through
\* CommandHistory.execute, with any ranges and texts, N calls of undo() leave
\* getText() equal to the text before the first command.
C1_UndoRestoresInitialText ==
    (phase = "undoing" /\ WithinStack /\ undoStack = <<>>)
        => Text = observed[execLog[1]].before

\* C2 (as claimed): after N <= maxStackSize commands, undoing all N and then
\* redoing all N leaves getText() equal to the text after the N-th execute.
C2_RedoReproducesFinalText ==
    (phase = "redoing" /\ WithinStack /\ redoStack = <<>>)
        => Text = observed[execLog[Len(execLog)]].after

\* C3: CommandHistory.execute leaves the redo stack empty, so canRedo() is false
\* right after any execute, whatever undo and redo calls came before.
C3_ExecuteClearsRedo ==
    lastCall.op = "history.execute" => (redoStack = <<>> /\ ~canRedo(History))

\* C3 witness: an execute that found commands on the redo stack
C3_Witness ==
    lastCall.op = "history.execute" /\ lastCall.redoLen > 0 /\ redoStack = <<>>

\* The last n entries of a sequence (all of it when it is shorter)
LastN(log, n) == SubSeq(log, Len(log) - Min(Len(log), n) + 1, Len(log))

\* C4: after maxStackSize + k executes on a fresh history the undo stack holds
\* exactly the maxStackSize most recently executed commands, in execution order;
\* once these are all undone canUndo() is false, the retained commands are
\* undone and the evicted ones are still executed (they were never undone).
C4_StackBound ==
    /\ phase = "executing" =>
            /\ undoStack = LastN(execLog, maxStackSize)
            /\ Len(undoStack) = Min(Len(execLog), maxStackSize)
    /\ (phase = "undoing" /\ undoStack = <<>>) =>
            /\ ~canUndo(History)
            /\ \A i \in 1..Len(execLog) :
                    StateOf(cmds[execLog[i]]) =
                        IF i <= Len(execLog) - maxStackSize THEN "Executed" ELSE "Undone"

\* C4 witness: more commands executed than the stack holds, and all that were
\* kept have been undone
C4_Witness ==
    /\ phase = "undoing"
    /\ undoStack = <<>>
    /\ maxStackSize > 0
    /\ Len(execLog) > maxStackSize

\* C5: undo() on an empty undo stack returns false and changes neither stack nor
\* the buffer; otherwise it pops the most recently pushed command, calls its
\* undo(), pushes it on the redo stack and returns true.  redo() mirrors this.
C5_UndoRedoEffect ==
    [][ /\ lastCall'.op = "history.undo" =>
            IF undoStack = <<>>
            THEN /\ lastCall'.ret = "false"
                 /\ UNCHANGED <<undoStack, redoStack, docs, cmds>>
            ELSE /\ lastCall'.ret = "true"
                 /\ undoStack' = SubSeq(undoStack, 1, Len(undoStack) - 1)
                 /\ redoStack' = Append(redoStack, Top(undoStack))
                 /\ StateOf(cmds[Top(undoStack)]) = "Executed"
                 /\ StateOf(cmds'[Top(undoStack)]) = "Undone"
        /\ lastCall'.op = "history.redo" =>
            IF redoStack = <<>>
            THEN /\ lastCall'.ret = "false"
                 /\ UNCHANGED <<undoStack, redoStack, docs, cmds>>
            ELSE /\ lastCall'.ret = "true"
                 /\ redoStack' = SubSeq(redoStack, 1, Len(redoStack) - 1)
                 /\ undoStack' = Append(undoStack, Top(redoStack))
                 /\ StateOf(cmds[Top(redoStack)]) = "Undone"
                 /\ StateOf(cmds'[Top(redoStack)]) = "Executed"
      ]_vars

\* C5 witness: a redo that succeeded while another undone command stayed on the
\* redo stack (two undos succeeded before it)
C5_Witness ==
    /\ lastCall.op = "history.redo"
    /\ lastCall.ret = "true"
    /\ lastCall.redoLen = 2
    /\ redoStack # <<>>
    /\ undoStack # <<>>

\* C6: clear() empties both stacks without calling undo() or redo() on any
\* command: the buffers and every command's state are unchanged, and canUndo()
\* and canRedo() are false afterwards.
C6_ClearFrame ==
    [][ lastCall'.op = "history.clear" =>
            /\ undoStack' = <<>>
            /\ redoStack' = <<>>
            /\ docs' = docs
            /\ cmds' = cmds
      ]_vars

\* C6 witness: a clear() that found commands on both stacks
C6_Witness ==
    /\ lastCall.op = "history.clear"
    /\ lastCall.undoLen > 0
    /\ lastCall.redoLen > 0
    /\ undoStack = <<>>
    /\ redoStack = <<>>

\* C34: for a CommandHistory with maxStackSize >= 0, under every interleaving
\* of execute, undo, redo and clear, undoStackSize + redoStackSize never
\* exceeds maxStackSize.
C34_HistorySizeBound ==
    Len(undoStack) + Len(redoStack) <= maxStackSize

\* C34 witness: redo() has refilled the undo stack of a history of size 2
\* up to its bound after more commands were executed than it holds
C34_Witness ==
    /\ lastCall.op = "history.redo"
    /\ lastCall.ret = "true"
    /\ maxStackSize = 2
    /\ Len(undoStack) = 2
    /\ Len(execLog) > 2

\* The three notifications about a command
CommandEvents == { "command-executed", "command-undone", "command-redone" }

\* The most recent call emitted exactly one of the three notifications: one of
\* type `type`, carrying the command the call was about, delivered when the
\* stacks were as the call left them
NotifiedOnce(type) ==
    \E i \in 1..Len(emitted) :
        /\ emitted[i].type = type
        /\ emitted[i].command = lastCall.cmd
        /\ emitted[i].undoStack = undoStack
        /\ emitted[i].redoStack = redoStack
        /\ \A j \in 1..Len(emitted) : j # i => emitted[j].type \notin CommandEvents

\* C27: each successful CommandHistory.execute, undo and redo emits exactly
\* one 'command-executed', 'command-undone' or 'command-redone' notification
\* respectively, carrying the affected command and delivered after the stacks
\* have been updated; undo() and redo() calls that return false, and clear(),
\* emit none of the three.
C27_OneNotificationPerCall ==
    /\ lastCall.op = "history.execute" => NotifiedOnce("command-executed")
    /\ (lastCall.op = "history.undo" /\ lastCall.ret = "true") =>
            NotifiedOnce("command-undone")
    /\ (lastCall.op = "history.redo" /\ lastCall.ret = "true") =>
            NotifiedOnce("command-redone")
    /\ ( \/ (lastCall.op \in {"history.undo", "history.redo"} /\ lastCall.ret = "false")
         \/ lastCall.op = "history.clear" ) =>
            \A i \in 1..Len(emitted) : emitted[i].type \notin CommandEvents

\* C27 witness: a redo() of a composite command has returned true and emitted
\* 'command-redone', then 'history-changed', with a command left to undo
C27_Witness ==
    /\ lastCall.op = "history.redo"
    /\ lastCall.ret = "true"
    /\ cmds[lastCall.cmd].kind = "CompositeCommand"
    /\ Len(emitted) = 2
    /\ emitted[1].type = "command-redone"
    /\ emitted[2].type = "history-changed"
    /\ Len(undoStack) > 0

----------------------------------------------------------------------------
(* CodeEditorEngine: E = [docs, document, selections, cmds, undoStack,      *)
(* redoStack, maxStackSize, registry, events, thrown].  Each operation      *)
(* returns the editor afterwards; events are the events the editor has      *)
(* emitted during the call and thrown says that ensureNotDisposed or        *)
(* setSelections threw.                                                     *)

Editor ==
    [docs |-> docs, document |-> document, selections |-> selections, cmds |-> cmds,
     undoStack |-> undoStack, redoStack |-> redoStack, maxStackSize |-> maxStackSize,
     registry |-> registry, events |-> <<>>, thrown |-> FALSE]

\* this.emit(type, data): the event, and the open document when it is
\* delivered; a disposed emitter delivers nothing
editorEmit(E, type, data) ==
    IF E.registry.isDisposed THEN E
    ELSE [E EXCEPT !.events = Append(@, [type |-> type, document |-> E.document,
                                         data |-> data])]

\* ensureNotDisposed has thrown 'Editor has been disposed'
editorDisposed(E) == [E EXCEPT !.thrown = TRUE]

\* A call has thrown before it changed anything: ensureDocument ('No
\* document is open'), CommandRegistry.execute ('Command not found'), or the
\* TypeError of reading a property of an undefined range
threw(E) == [E EXCEPT !.thrown = TRUE]

\* CodeEditorEngine.emitTextChanged
emitTextChanged(E) ==
    IF E.document # 0 THEN editorEmit(E, "text-changed", <<>>) ELSE E

\* The listeners of setupEventForwarding, on the events a CommandHistory
\* operation emitted: 'command-undone' is forwarded as 'undo', 'command-redone'
\* as 'redo'
RECURSIVE forwarded(_, _)
forwarded(E, events) ==
    IF events = <<>> THEN E
    ELSE forwarded(IF events[1].type = "command-undone"
                   THEN editorEmit(E, "undo", events[1].command)
                   ELSE IF events[1].type = "command-redone"
                   THEN editorEmit(E, "redo", events[1].command)
                   ELSE E,
                   Tail(events))

\* The editor's CommandHistory and the world its commands act on
historyOf(E) ==
    [undoStack |-> E.undoStack, redoStack |-> E.redoStack, maxStackSize |-> E.maxStackSize]
worldOf(E) == [docs |-> E.docs, cmds |-> E.cmds]

\* The editor after a CommandHistory operation with result r
withHistory(E, r) ==
    forwarded([E EXCEPT !.docs = r.W.docs, !.cmds = r.W.cmds,
                        !.undoStack = r.undoStack, !.redoStack = r.redoStack],
              r.events)

\* A collapsed selection at position p
CaretAt(p) == [start |-> p, end |-> p, anchor |-> p, active |-> p, isReversed |-> FALSE]

\* CodeEditorEngine.isPositionBefore
isPositionBefore(a, b) == a.line < b.line \/ (a.line = b.line /\ a.column < b.column)

validatedSelection(start, end, anchor, active) ==
    [start |-> start, end |-> end, anchor |-> anchor, active |-> active,
     isReversed |-> isPositionBefore(active, anchor)]

\* CodeEditorEngine.validateSelection
validateSelection(E, selection) ==
    IF E.document = 0 THEN selection
    ELSE validatedSelection(validatePosition(E.docs[E.document].buffer, selection.start),
                            validatePosition(E.docs[E.document].buffer, selection.end),
                            validatePosition(E.docs[E.document].buffer, selection.anchor),
                            validatePosition(E.docs[E.document].buffer, selection.active))

\* the end of CodeEditorEngine.setSelections, this._selections being set
selectionsSet(E) ==
    IF E.document = 0 THEN E
    ELSE editorEmit(editorEmit(E, "selection-changed", E.selections),
                    "cursor-moved", E.selections[1].active)

\* A variant of setSelections that does not reject an empty list: with a
\* document open, reading this._selections[0] then throws a TypeError
setSelections_unchecked(E, sels) ==
    IF E.registry.isDisposed THEN editorDisposed(E)
    ELSE IF Len(sels) = 0
    THEN IF E.document = 0 THEN [E EXCEPT !.selections = <<>>]
         ELSE [editorEmit([E EXCEPT !.selections = <<>>], "selection-changed", <<>>)
                EXCEPT !.thrown = TRUE]
    ELSE selectionsSet([E EXCEPT !.selections =
                            [i \in 1..Len(sels) |-> validateSelection(E, sels[i])]])

\* CodeEditorEngine.setSelections
setSelections(E, sels) ==
    IF E.registry.isDisposed THEN editorDisposed(E)
    ELSE IF Len(sels) = 0 THEN [E EXCEPT !.thrown = TRUE]
    ELSE selectionsSet([E EXCEPT !.selections =
                            [i \in 1..Len(sels) |-> validateSelection(E, sels[i])]])

\* A variant of closeDocument that keeps the command history
closeDocument_keepHistory(E) ==
    IF E.document # 0
    THEN editorEmit([E EXCEPT !.document = 0], "document-closed", E.docs[E.document].uri)
    ELSE E

\* CodeEditorEngine.closeDocument
closeDocument(E) ==
    IF E.document # 0
    THEN editorEmit(withHistory([E EXCEPT !.document = 0],
                                CommandHistory_clear(historyOf(E), worldOf(E))),
                    "document-closed", E.docs[E.document].uri)
    ELSE E

\* this._document = new TextDocumentImpl(uri, languageId, 1, content)
createDocument(E, content) ==
    [E EXCEPT !.docs = Append(@, TextDocumentImpl("file:///a", "plaintext", 1, content)),
              !.document = Len(E.docs) + 1]

\* this.commandHistory.clear()
clearHistory(E) == withHistory(E, CommandHistory_clear(historyOf(E), worldOf(E)))

\* CodeEditorEngine.openDocument
openDocument(E, content) ==
    IF E.registry.isDisposed THEN editorDisposed(E)
    ELSE editorEmit(clearHistory(setSelections(createDocument(closeDocument(E), content),
                                               <<CaretAt(Pos(0, 0))>>)),
                    "document-opened", Len(E.docs) + 1)

\* CodeEditorEngine.saveDocument
saveDocument(E) ==
    IF E.document # 0 THEN editorEmit(E, "document-saved", E.document) ELSE E

\* CodeEditorEngine.executeUndoableCommand, for a command just created
executeUndoableCommand(E, command) ==
    emitTextChanged(
        withHistory(E, CommandHistory_execute(historyOf(E),
                                              [docs |-> E.docs, cmds |-> Append(E.cmds, command)],
                                              Len(E.cmds) + 1)))

\* The cursor position the editor computes after inserting `text` at `position`
positionAfter(position, text, parts) ==
    Pos(position.line + (Len(parts) - 1),
        IF includes(text, <<LF>>) THEN Len(parts[Len(parts)])
        ELSE position.column + Len(text))

insertTextAt(E, text, insertPosition) ==
    setSelections(
        executeUndoableCommand(E, createInsertTextCommand(E.document, insertPosition, text)),
        <<CaretAt(positionAfter(insertPosition, text, splitLF(text)))>>)

\* CodeEditorEngine.insertText(text, position?); it throws when no document is open
Editor_insertText(E, text, position, given) ==
    IF E.registry.isDisposed THEN editorDisposed(E)
    ELSE IF E.document = 0 THEN threw(E)
    ELSE insertTextAt(E, text, IF given THEN position ELSE E.selections[1].active)

\* CodeEditorEngine.deleteText(range)
Editor_deleteText(E, range) ==
    IF E.registry.isDisposed THEN editorDisposed(E)
    ELSE IF E.document = 0 THEN threw(E)
    ELSE setSelections(
            executeUndoableCommand(E, createDeleteTextCommand(E.document, range)),
            <<CaretAt(range.start)>>)

\* CodeEditorEngine.replaceText(range, text)
Editor_replaceText(E, range, text) ==
    IF E.registry.isDisposed THEN editorDisposed(E)
    ELSE IF E.document = 0 THEN threw(E)
    ELSE setSelections(
            executeUndoableCommand(E, createReplaceTextCommand(E.document, range, text)),
            <<CaretAt(positionAfter(range.start, text, splitLF(text)))>>)

\* if (this.commandHistory.undo()) this.emitTextChanged(), r being the result
\* of the CommandHistory operation; the same for redo
textChangedIf(E, r) ==
    IF r.ret = "true" THEN emitTextChanged(withHistory(E, r)) ELSE withHistory(E, r)

\* CodeEditorEngine.undo
Editor_undo(E) ==
    IF E.registry.isDisposed THEN editorDisposed(E)
    ELSE textChangedIf(E, CommandHistory_undo(historyOf(E), worldOf(E)))

\* CodeEditorEngine.redo
Editor_redo(E) ==
    IF E.registry.isDisposed THEN editorDisposed(E)
    ELSE textChangedIf(E, CommandHistory_redo(historyOf(E), worldOf(E)))

\* The arguments of an executeCommand call, for the handlers of
\* setupBuiltInCommands: the first `count` parameters of the handler are
\* given, the others are undefined
CommandArgs(count, text, position, range) ==
    [count |-> count, text |-> text, position |-> position, range |-> range]

\* An editing call whose text is undefined, from TextEditCommand.execute on:
\* LineBuffer.replaceText has deleted the range when LineBuffer.insertText
\* throws the TypeError of undefined.split; the command is not pushed and no
\* event is emitted
textUndefined(E, range) ==
    IF E.document = 0 THEN threw(E)
    ELSE [E EXCEPT !.docs[E.document].buffer = deleteText(@, range).buffer,
                   !.thrown = TRUE]

\* (text, position?) => this.insertText(text, position)
insertTextHandler(E, args) ==
    IF args.count = 0
    THEN textUndefined(E, Rng(E.selections[1].active, E.selections[1].active))
    ELSE Editor_insertText(E, args.text, args.position, args.count >= 2)

\* (range) => this.deleteText(range): an undefined range throws when
\* getTextRange reads range.start
deleteTextHandler(E, args) ==
    IF args.count = 0 THEN threw(E) ELSE Editor_deleteText(E, args.range)

\* (range, text) => this.replaceText(range, text)
replaceTextHandler(E, args) ==
    IF args.count = 0 THEN threw(E)
    ELSE IF args.count = 1 THEN textUndefined(E, args.range)
    ELSE Editor_replaceText(E, args.range, args.text)

\* CodeEditorEngine.executeCommand(commandId, ...args): CommandRegistry.execute
\* runs the handler setupBuiltInCommands registered for the id, else a
\* registered command, and throws when there is neither
Editor_executeCommand(E, commandId, args) ==
    IF E.registry.isDisposed THEN editorDisposed(E)
    ELSE IF commandId = "editor.undo" THEN Editor_undo(E)
    ELSE IF commandId = "editor.redo" THEN Editor_redo(E)
    ELSE IF commandId = "editor.insertText" THEN insertTextHandler(E, args)
    ELSE IF commandId = "editor.deleteText" THEN deleteTextHandler(E, args)
    ELSE IF commandId = "editor.replaceText" THEN replaceTextHandler(E, args)
    ELSE IF commandId \in E.registry.commands THEN E
    ELSE threw(E)

\* this.disposables.dispose(): every registration made with the editor is disposed
disposablesDisposed(E) ==
    [E EXCEPT !.registry =
        disposeEach(@, [d \in 1..Len(E.registry.disposables) |-> d])]

\* CodeEditorEngine.dispose: isDisposed is set first, so that the
\* 'document-closed' of closeDocument is delivered to nobody
Editor_dispose(E) ==
    IF E.registry.isDisposed THEN E
    ELSE disposablesDisposed(closeDocument([E EXCEPT !.registry.isDisposed = TRUE]))

----------------------------------------------------------------------------
(* Specification SpecEditor: one CodeEditorEngine whose user opens and      *)
(* closes documents, edits the open one and calls undo and redo.  The       *)
(* history variables execLog, phase and observed are kept only under Spec.  *)

InitEditor ==
    /\ docs = <<>>
    /\ document = 0
    /\ selections = <<DefaultSelection>>
    /\ cmds = <<>>
    /\ undoStack = <<>>
    /\ redoStack = <<>>
    /\ maxStackSize = DEFAULT_undoStackSize
    /\ execLog = <<>>
    /\ phase = "executing"
    /\ observed = <<>>
    /\ lastCall = NoCall
    /\ grouper = NoGrouper
    /\ groupLog = NoGroupLog
    /\ search = NoSearch
    /\ emitted = <<>>
    /\ Unused

\* The variables an editor operation sets, E being the editor afterwards
EditorState(E) ==
    /\ \A d \in 1..Len(E.docs) : E.docs[d].buffer.version <= MaxEditorVersion
    /\ docs' = E.docs
    /\ document' = E.document
    /\ selections' = E.selections
    /\ cmds' = E.cmds
    /\ undoStack' = E.undoStack
    /\ redoStack' = E.redoStack
    /\ emitted' = E.events
    /\ registry' = E.registry
    /\ UNCHANGED <<options, tokenizer, emitter, host, search, grouper, groupLog, maxStackSize, execLog, phase, observed>>

\* An editor operation on command c (0: none) with outcome ret
EditorCall(op, c, ret, E) ==
    /\ lastCall' = Call(op, c, From(c), ret)
    /\ EditorState(E)

\* The outcome of an editing call: ensureNotDisposed throws on a disposed
\* editor and ensureDocument when no document is open
Edited == IF registry.isDisposed \/ document = 0 THEN "throw" ELSE "void"

\* Contents documents are opened with: one line, two lines ending in \n, in
\* \r\n and in \r, and lines ending in \n and in \r\n
OpenContents ==
    { <<"a", "b">>,
      <<"a", "b", LF, "c", "d">>,
      <<"a", CR, LF, "b">>,
      <<"a", CR, "b">>,
      <<"a", LF, "b", CR, LF>> }

\* The inputs a call on the editor is made with: all of S, and one of them on
\* a disposed editor, where ensureNotDisposed throws before any is looked at
Inputs(S) == IF registry.isDisposed THEN {CHOOSE x \in S : TRUE} ELSE S

\* editor.openDocument(uri, content, languageId)
Opened(content, E) ==
    /\ lastCall' = [op |-> "openDocument", cmd |-> 0, content |-> content,
                    ret |-> IF E.thrown THEN "throw" ELSE "void"]
    /\ EditorState(E)

OpenDocument ==
    \E content \in Inputs(OpenContents) :
        /\ Len(docs) + Len(cmds) < MaxEditorObjects
        /\ Opened(content, openDocument(Editor, content))

CloseDocument ==
    /\ lastCall' = Call("closeDocument", 0, From(0), "void")
    /\ EditorState(closeDocument(Editor))

\* The selection lists setSelections is called with: none, and a selection
\* made backwards that ends outside the document followed by a caret
SelectionLists ==
    { <<>>,
      <<[start |-> Pos(0, 0), end |-> Pos(5, 5), anchor |-> Pos(5, 5),
         active |-> Pos(0, 0), isReversed |-> TRUE],
        CaretAt(Pos(1, 0))>> }

\* editor.setSelections(sels), E being the editor afterwards
SelectionsCalled(sels, E) ==
    /\ lastCall' = [op |-> "setSelections", cmd |-> 0, sels |-> sels,
                    ret |-> IF E.thrown THEN "throw" ELSE "void"]
    /\ EditorState(E)

\* setSelections is called while the editor may still create objects
SetSelections ==
    \E sels \in Inputs(SelectionLists) :
        /\ Len(docs) + Len(cmds) < MaxEditorObjects
        /\ SelectionsCalled(sels, setSelections(Editor, sels))

InsertText ==
    \E e \in Inputs(Edits), given \in Inputs(BOOLEAN) :
        /\ Len(docs) + Len(cmds) < MaxEditorObjects
        /\ EditorCall("insertText", 0, Edited,
                      Editor_insertText(Editor, e.text, e.range.start, given))

DeleteText ==
    \E e \in Inputs(Edits) :
        /\ Len(docs) + Len(cmds) < MaxEditorObjects
        /\ EditorCall("deleteText", 0, Edited, Editor_deleteText(Editor, e.range))

ReplaceText ==
    \E e \in Inputs(Edits) :
        /\ Len(docs) + Len(cmds) < MaxEditorObjects
        /\ EditorCall("replaceText", 0, Edited, Editor_replaceText(Editor, e.range, e.text))

\* The outcome of undo() and redo(), `can` being canUndo() or canRedo()
Stepped(can) ==
    IF registry.isDisposed THEN "throw" ELSE IF can THEN "true" ELSE "false"

EditorUndo ==
    /\ lastCall' = Call("undo", Top(undoStack), From(Top(undoStack)), Stepped(canUndo(History)))
    /\ EditorState(Editor_undo(Editor))

EditorRedo ==
    /\ lastCall' = Call("redo", Top(redoStack), From(Top(redoStack)), Stepped(canRedo(History)))
    /\ EditorState(Editor_redo(Editor))

\* editor.saveDocument(), called while the editor may still create objects
SaveDocument ==
    /\ Len(docs) + Len(cmds) < MaxEditorObjects
    /\ EditorCall("saveDocument", 0, "void", saveDocument(Editor))

\* The ids of the handlers setupBuiltInCommands registers
CommandIds ==
    { "editor.undo", "editor.redo", "editor.insertText", "editor.deleteText",
      "editor.replaceText" }

\* The method a built-in handler calls
handlerMethod(commandId) ==
    IF commandId = "editor.undo" THEN "undo"
    ELSE IF commandId = "editor.redo" THEN "redo"
    ELSE IF commandId = "editor.insertText" THEN "insertText"
    ELSE IF commandId = "editor.deleteText" THEN "deleteText"
    ELSE "replaceText"

\* The number of arguments a built-in handler needs
handlerArity(commandId) ==
    IF commandId \in { "editor.undo", "editor.redo" } THEN 0
    ELSE IF commandId = "editor.replaceText" THEN 2
    ELSE 1

\* The outcome of executeCommand(commandId, ...) with `count` arguments
CommandOutcome(commandId, count) ==
    IF commandId = "editor.undo" THEN Stepped(canUndo(History))
    ELSE IF commandId = "editor.redo" THEN Stepped(canRedo(History))
    ELSE IF count < handlerArity(commandId) THEN "throw"
    ELSE Edited

\* The command the call is about: the top of the stack undo or redo takes from
Subject(commandId) ==
    IF commandId = "editor.undo" THEN Top(undoStack)
    ELSE IF commandId = "editor.redo" THEN Top(redoStack)
    ELSE 0

\* The calls of executeCommand that give every argument the handler needs:
\* each id with its arguments, and insertText also with a position
CommandCalls ==
    { call \in [commandId : CommandIds, count : {0, 1, 2}] :
        \/ call.count = handlerArity(call.commandId)
        \/ call.commandId = "editor.insertText" /\ call.count = 2 }

\* The calls of executeCommand that lack an argument the handler needs
LackingCalls ==
    { call \in [commandId : CommandIds, count : {0, 1}] :
        call.count < handlerArity(call.commandId) }

\* The edits whose text, start and range are the arguments: an insertion,
\* and for a call that lacks its text a range over a line break
CommandEdits == { [range |-> Rng(Pos(0, 1), Pos(0, 1)), text |-> <<"x">>] }
LackingEdits == { [range |-> Rng(Pos(0, 1), Pos(1, 1)), text |-> <<"x">>] }

\* executeCommand(call.commandId, ...), the arguments taken from edit e
Commanded(call, e) ==
    /\ lastCall' = Call(handlerMethod(call.commandId), Subject(call.commandId),
                        From(Subject(call.commandId)),
                        CommandOutcome(call.commandId, call.count))
    /\ EditorState(Editor_executeCommand(
                        Editor, call.commandId,
                        CommandArgs(call.count, e.text, e.range.start, e.range)))

\* editor.executeCommand(commandId, ...args), called while the editor may
\* still create objects, with the arguments the handler needs
ExecuteCommand ==
    \E call \in Inputs(CommandCalls), e \in CommandEdits :
        /\ Len(docs) + Len(cmds) < MaxEditorObjects
        /\ Commanded(call, e)

\* editor.executeCommand(commandId, ...args) without an argument the handler
\* needs, called up to buffer version MaxLackingVersion of the open document
ExecuteCommandLacking ==
    \E call \in Inputs(LackingCalls), e \in LackingEdits :
        /\ Len(docs) + Len(cmds) < MaxEditorObjects
        /\ IF document = 0 THEN TRUE
           ELSE docs[document].buffer.version <= MaxLackingVersion
        /\ Commanded(call, e)

\* editor.dispose(), called while the editor may still create objects
Dispose ==
    /\ Len(docs) + Len(cmds) < MaxEditorObjects
    /\ EditorCall("dispose", 0, "void", Editor_dispose(Editor))

NextEditor ==
    \/ OpenDocument
    \/ CloseDocument
    \/ SaveDocument
    \/ SetSelections
    \/ InsertText
    \/ DeleteText
    \/ ReplaceText
    \/ EditorUndo
    \/ EditorRedo
    \/ ExecuteCommand
    \/ Dispose

SpecEditor == InitEditor /\ [][NextEditor]_vars

\* CodeEditorEngine.updateOptions(given): this._options = {...this._options,
\* ...given}; the branch for undoStackSize is empty, the CommandHistory is
\* not resized
updateOptions(current, given) ==
    [current EXCEPT !.undoStackSize = given.undoStackSize]

\* new CodeEditorEngine(given): the commandHistory field is initialised from
\* DEFAULT_OPTIONS before the constructor body runs; updateOptions then merges
\* the given options into _options and leaves the history as it is
CodeEditorEngine_new(given) ==
    [options |-> updateOptions(DEFAULT_OPTIONS, given),
     maxStackSize |-> DEFAULT_OPTIONS.undoStackSize]

\* An editor constructed with an undoStackSize option
InitOptions ==
    /\ \E k \in 0..MaxUndoOption :
            /\ options = CodeEditorEngine_new([undoStackSize |-> k]).options
            /\ maxStackSize = CodeEditorEngine_new([undoStackSize |-> k]).maxStackSize
    /\ docs = <<>>
    /\ document = 0
    /\ selections = <<DefaultSelection>>
    /\ cmds = <<>>
    /\ undoStack = <<>>
    /\ redoStack = <<>>
    /\ execLog = <<>>
    /\ phase = "executing"
    /\ observed = <<>>
    /\ lastCall = NoCall
    /\ grouper = NoGrouper
    /\ groupLog = NoGroupLog
    /\ search = NoSearch
    /\ emitted = <<>>
    /\ tokenizer = NoTokenizer
    /\ emitter = NoEmitter
    /\ host = NoHost
    /\ registry = NoRegistry

\* editor.updateOptions({undoStackSize: k}): the options change, no event is
\* emitted
UpdateOptions ==
    \E k \in 0..MaxUndoOption :
        /\ options' = updateOptions(options, [undoStackSize |-> k])
        /\ lastCall' = Call("updateOptions", 0, "none", "void")
        /\ emitted' = <<>>
        /\ UNCHANGED <<docs, document, selections, cmds, undoStack, redoStack, maxStackSize,
                       execLog, phase, observed, grouper, groupLog, search,
                       tokenizer, emitter, host, registry>>

NextOptions ==
    \/ NextEditor
    \/ UpdateOptions
    \/ ExecuteCommandLacking

\* Specification SpecOptions: the editor of SpecEditor, constructed with
\* options and given new ones at any time, and whose commands are also
\* executed without the arguments they need
SpecOptions == InitOptions /\ [][NextOptions]_vars

\* C36: an editor constructed with option undoStackSize = k retains at most
\* k undoable steps, so that after k + 1 successful insertText calls exactly
\* k undo() calls succeed and canUndo() is then false: a call that adds an
\* undoable step leaves at most as many steps on the undo stack as the
\* undoStackSize option in force, which is k unless updateOptions changed it.
C36_UndoBoundIsOption ==
    [][ Len(undoStack') > Len(undoStack) =>
            Len(undoStack') <= options'.undoStackSize ]_vars

----------------------------------------------------------------------------
(* Claims about CodeEditorEngine, checked under SpecEditor. *)

\* The documents command c, or a command it contains, edits
RECURSIVE Targets(_)
Targets(c) ==
    IF cmds[c].kind = "TextEditCommand" THEN {cmds[c].document}
    ELSE UNION { Targets(cmds[c].commands[i]) : i \in 1..Len(cmds[c].commands) }

\* The commands the history stacks hold
Held == {undoStack[i] : i \in 1..Len(undoStack)} \cup {redoStack[i] : i \in 1..Len(redoStack)}

\* C7: after openDocument or closeDocument canUndo() and canRedo() are false;
\* in every reachable state every command the history holds targets the open
\* document; and so no undo() or redo() changes a document other than the
\* open one.
C7_NoCrossDocumentUndo ==
    /\ [](/\ lastCall.op \in {"openDocument", "closeDocument"} =>
                (~canUndo(History) /\ ~canRedo(History))
          /\ \A c \in Held : document # 0 /\ Targets(c) = {document})
    /\ [][ lastCall'.op \in {"undo", "redo"} =>
                \A d \in 1..Len(docs) : d # document => docs'[d] = docs[d] ]_vars

\* C7 witness: undo() is called after a second document was opened while
\* executed commands of the first still exist, and finds nothing to undo
C7_Witness ==
    /\ lastCall.op = "undo"
    /\ lastCall.ret = "false"
    /\ document = 2
    /\ \E c \in 1..Len(cmds) : cmds[c].document = 1 /\ cmds[c].executed

\* The text of `content` has line breaks of one style only: none or only \n,
\* only \r, or only \r\n
SingleStyle(content) ==
    \/ ~includes(content, <<CR>>)
    \/ ~includes(content, <<LF>>)
    \/ \A i \in 1..Len(content) :
        /\ content[i] = CR => (i < Len(content) /\ content[i + 1] = LF)
        /\ content[i] = LF => (i > 1 /\ content[i - 1] = CR)

\* C25 as stated: for any content string (any mix of \n, \r and \r\n),
\* immediately after openDocument(uri, content, languageId) document.getText()
\* equals content exactly.
C25_OpenPreservesAnyContent ==
    (lastCall.op = "openDocument" /\ lastCall.ret = "void") => Text = lastCall.content

\* C25 as amended: for any content string whose line breaks are of one style
\* (none, only \n, only \r or only \r\n), immediately after openDocument
\* document.getText() equals content exactly.
C25_OpenPreservesContent ==
    (lastCall.op = "openDocument" /\ lastCall.ret = "void"
        /\ SingleStyle(lastCall.content)) =>
            Text = lastCall.content

\* C25 witness: a document with two lines ending in \r\n was opened while
\* another document was open
C25_Witness ==
    /\ lastCall.op = "openDocument"
    /\ lastCall.content = <<"a", CR, LF, "b">>
    /\ document = 2
    /\ Text = lastCall.content

\* C28: in every reachable state of the editor the selections list is
\* non-empty; setSelections([]) throws, emits no event, and leaves the
\* selections as they were before the call.
C28_SelectionAlwaysExists ==
    /\ [](/\ Len(selections) >= 1
          /\ lastCall.op = "setSelections" =>
                (Len(lastCall.sels) = 0 => (lastCall.ret = "throw" /\ emitted = <<>>)))
    /\ [][ lastCall'.op = "setSelections" =>
                (Len(lastCall'.sels) = 0 => selections' = selections) ]_vars

\* C28 witness: setSelections([]) was called and threw while a document is
\* open and two selections set by an earlier setSelections call are in place
C28_Witness ==
    /\ lastCall.op = "setSelections"
    /\ Len(lastCall.sels) = 0
    /\ lastCall.ret = "throw"
    /\ document # 0
    /\ Len(selections) = 2

----------------------------------------------------------------------------
(* Specification SpecCmd: commands over one document, constructed and then  *)
(* called directly (execute, undo, redo) by their owner, in any order and   *)
(* from any state.  No CommandHistory is involved.                          *)

InitCmd ==
    /\ \E content \in InitContents : docs = <<TextDocumentImpl("file:///a", "plaintext", 1, content)>>
    /\ document = 1
    /\ selections = <<DefaultSelection>>
    /\ cmds = <<>>
    /\ undoStack = <<>>
    /\ redoStack = <<>>
    /\ maxStackSize = 0
    /\ execLog = <<>>
    /\ phase = "executing"
    /\ observed = <<>>
    /\ lastCall = NoCall
    /\ grouper = NoGrouper
    /\ groupLog = NoGroupLog
    /\ search = NoSearch
    /\ emitted = <<>>
    /\ Unused

\* Lists of at most MaxChildren existing commands
ChildLists == UNION { [1..n -> 1..Len(cmds)] : n \in 0..MaxChildren }

\* The variables constructing a command sets
Constructed(command) ==
    /\ Len(cmds) < MaxDirectCmds
    /\ cmds' = Append(cmds, command)
    /\ lastCall' = Call("new", Len(cmds) + 1, "none", "void")
    /\ UNCHANGED <<options, tokenizer, emitter, host, registry, search, emitted, grouper, groupLog, docs, document, selections, undoStack, redoStack, maxStackSize,
                   execLog, phase, observed>>

\* new TextEditCommand(context, range, newText)
NewTextEditCommand ==
    \E e \in Edits : Constructed(TextEditCommand(document, e.range, e.text))

\* new CompositeCommand(id, label, commands)
NewCompositeCommand ==
    \E commands \in ChildLists : Constructed(CompositeCommand(commands))

\* The variables a direct call on command c sets, W being the world afterwards;
\* none of the three methods has a throw statement
Called(op, c, W) ==
    /\ W.docs[document].buffer.version <= MaxDirectVersion
    /\ docs' = W.docs
    /\ cmds' = W.cmds
    /\ lastCall' = Call(op, c, From(c), "void")
    /\ UNCHANGED <<options, tokenizer, emitter, host, registry, search, emitted, grouper, groupLog, document, selections, undoStack, redoStack, maxStackSize,
                   execLog, phase, observed>>

\* command.execute()
CallExecute == \E c \in 1..Len(cmds) : Called("command.execute", c, Command_execute(World, c))

\* command.undo()
CallUndo == \E c \in 1..Len(cmds) : Called("command.undo", c, Command_undo(World, c))

\* command.redo()
CallRedo == \E c \in 1..Len(cmds) : Called("command.redo", c, Command_redo(World, c))

NextCmd ==
    \/ NewTextEditCommand
    \/ NewCompositeCommand
    \/ CallExecute
    \/ CallUndo
    \/ CallRedo

SpecCmd == InitCmd /\ [][NextCmd]_vars

----------------------------------------------------------------------------
(* Claims about single commands, checked under SpecCmd. *)

\* C8: undo() on an Idle command, TextEditCommand or CompositeCommand, does
\* not throw, changes neither the text nor the version of the buffer, and
\* leaves the command (and every other command) as it was, so Idle.
C8_UndoOnIdleIsNoOp ==
    [][ (lastCall'.op = "command.undo" /\ lastCall'.from = "Idle") =>
            /\ lastCall'.ret = "void"
            /\ docs' = docs
            /\ cmds' = cmds
            /\ StateOf(cmds'[lastCall'.cmd]) = "Idle" ]_vars

\* C8 witness: undo() was called on an Idle CompositeCommand one of whose
\* children is already Executed, on a buffer that has been edited
C8_Witness ==
    /\ lastCall.op = "command.undo"
    /\ lastCall.from = "Idle"
    /\ cmds[lastCall.cmd].kind = "CompositeCommand"
    /\ \E i \in 1..Len(cmds[lastCall.cmd].commands) :
            StateOf(cmds[cmds[lastCall.cmd].commands[i]]) = "Executed"
    /\ docs[document].buffer.version > 1

\* C9: execute() on a command that is already Executed is rejected with an
\* error and leaves the buffer as it was.
C9_ExecuteOnExecutedRejected ==
    [][ (lastCall'.op = "command.execute" /\ lastCall'.from = "Executed") =>
            /\ lastCall'.ret = "throw"
            /\ docs' = docs ]_vars

\* C33: isExecuted and isUndone are never both true of a command; a command
\* that has left Idle is afterwards always Executed or Undone, whatever is
\* called on it or on a composite holding it; and execute() leaves the
\* command it is called on Executed, so a command is Idle only before its
\* first execute().
C33_CommandStateMachine ==
    /\ [](\A c \in 1..Len(cmds) : ~(cmds[c].executed /\ cmds[c].undone))
    /\ [][ \A c \in 1..Len(cmds) :
            /\ StateOf(cmds[c]) # "Idle" => StateOf(cmds'[c]) \in {"Executed", "Undone"}
            /\ (lastCall'.op = "command.execute" /\ lastCall'.cmd = c) =>
                    StateOf(cmds'[c]) = "Executed" ]_vars

\* C33 witness: redo() was called on an Undone CompositeCommand with a
\* child and left both of them Executed
C33_Witness ==
    /\ lastCall.op = "command.redo"
    /\ lastCall.from = "Undone"
    /\ cmds[lastCall.cmd].kind = "CompositeCommand"
    /\ StateOf(cmds[lastCall.cmd]) = "Executed"
    /\ \E i \in 1..Len(cmds[lastCall.cmd].commands) :
            StateOf(cmds[cmds[lastCall.cmd].commands[i]]) = "Executed"

----------------------------------------------------------------------------
(* Composite commands as one unit of CommandHistory, checked under Spec. *)

\* C10: a CompositeCommand is one undo unit of CommandHistory: undoing it
\* restores exactly the text the buffer had before the composite was
\* executed, and redoing it reproduces exactly the text the buffer had after.
C10_CompositeUndoRedoExact ==
    (/\ lastCall.cmd # 0
     /\ lastCall.ret = "true"
     /\ cmds[lastCall.cmd].kind = "CompositeCommand") =>
        /\ lastCall.op = "history.undo" => Text = observed[lastCall.cmd].before
        /\ lastCall.op = "history.redo" => Text = observed[lastCall.cmd].after

----------------------------------------------------------------------------
(* Specification SpecCompose: SpecCmd whose owner also adds children to     *)
(* composites with addCommand, before and after executing them.             *)

\* Command d is command c or one of the commands c contains
RECURSIVE Contains(_, _)
Contains(c, d) ==
    \/ c = d
    \/ \E i \in 1..Len(cmds[c].commands) : Contains(cmds[c].commands[i], d)

\* The variables composite.addCommand(command) sets, r = [W, ret] being its result
Added(c, r) ==
    /\ docs' = r.W.docs
    /\ cmds' = r.W.cmds
    /\ lastCall' = Call("command.addCommand", c, From(c), r.ret)
    /\ UNCHANGED <<options, tokenizer, emitter, host, registry, search, emitted, grouper, groupLog, document, selections, undoStack, redoStack, maxStackSize,
                   execLog, phase, observed>>

\* composite.addCommand(command), for a command that does not contain the composite
CallAddCommand ==
    \E c \in 1..Len(cmds), command \in 1..Len(cmds) :
        /\ cmds[c].kind = "CompositeCommand"
        /\ Len(cmds[c].commands) < MaxChildren
        /\ ~Contains(command, c)
        /\ Added(c, CompositeCommand_addCommand(World, c, command))

NextCompose ==
    \/ NewTextEditCommand
    \/ NewCompositeCommand
    \/ CallAddCommand
    \/ CallExecute
    \/ CallUndo
    \/ CallRedo

SpecCompose == InitCmd /\ [][NextCompose]_vars

\* C11: once execute() has run on a composite (it is no longer Idle, whether
\* Executed or since undone), addCommand throws and leaves every command,
\* the child list included, unchanged.
C11_AddAfterExecuteThrows ==
    [][ (lastCall'.op = "command.addCommand" /\ lastCall'.from # "Idle") =>
            /\ lastCall'.ret = "throw"
            /\ cmds' = cmds ]_vars

----------------------------------------------------------------------------
(* CommandGrouper.  grouper = [currentGroup, groupTimeout, groupingTimeoutMs, *)
(* timers, now]: the object's three fields, the timers of the host that are   *)
(* pending, each [id, due, group] (group: the group that was open when the    *)
(* timer was armed, kept as history), and the host's clock.                   *)

\* new CommandGrouper(groupingTimeoutMs)
CommandGrouper(groupingTimeoutMs) ==
    [NoGrouper EXCEPT !.groupingTimeoutMs = groupingTimeoutMs]

\* clearTimeout(id)
clearTimeout(timers, id) == { t \in timers : t.id # id }

\* The handle setTimeout returns: one that no pending timer has
FreshTimer(timers) ==
    CHOOSE i \in 1..(Cardinality(timers) + 1) : \A t \in timers : t.id # i

\* this.groupTimeout = setTimeout(() => this.endGroup(), this.groupingTimeoutMs)
armTimeout(G, timers) ==
    [G EXCEPT !.groupTimeout = FreshTimer(timers),
              !.timers = timers \cup {[id    |-> FreshTimer(timers),
                                       due   |-> G.now + G.groupingTimeoutMs,
                                       group |-> G.currentGroup]}]

\* CommandGrouper.resetGroupTimeout
resetGroupTimeout(G) ==
    armTimeout(G, IF G.groupTimeout # 0 THEN clearTimeout(G.timers, G.groupTimeout)
                  ELSE G.timers)

\* A variant of endGroup that forgets the timer handle without clearing the timer
CommandGrouper_endGroup_keepTimer(G) ==
    [grouper |-> [G EXCEPT !.groupTimeout = 0, !.currentGroup = 0],
     ret     |-> G.currentGroup]

\* CommandGrouper.endGroup: the grouper afterwards and the returned group (0 = null)
CommandGrouper_endGroup(G) ==
    [grouper |-> [G EXCEPT !.timers = IF G.groupTimeout # 0
                                      THEN clearTimeout(G.timers, G.groupTimeout)
                                      ELSE G.timers,
                           !.groupTimeout = 0,
                           !.currentGroup = 0],
     ret     |-> G.currentGroup]

\* this.currentGroup = new CompositeCommand(id, label), after endGroup left G
openGroup(G, W) ==
    [grouper |-> [G EXCEPT !.currentGroup = Len(W.cmds) + 1],
     W       |-> [W EXCEPT !.cmds = Append(@, CompositeCommand(<<>>))],
     ret     |-> "void"]

\* CommandGrouper.startGroup
CommandGrouper_startGroup(G, W) == openGroup(CommandGrouper_endGroup(G).grouper, W)

\* the rest of addToGroup, r being the result of currentGroup.addCommand(command)
afterAddCommand(G, r) ==
    IF r.ret = "throw"
    THEN [grouper |-> G, W |-> r.W, ret |-> "throw"]
    ELSE [grouper |-> resetGroupTimeout(G), W |-> r.W, ret |-> "void"]

\* CommandGrouper.addToGroup
CommandGrouper_addToGroup(G, W, command) ==
    IF G.currentGroup = 0
    THEN [grouper |-> G, W |-> W, ret |-> "void"]
    ELSE afterAddCommand(G, CompositeCommand_addCommand(W, G.currentGroup, command))

----------------------------------------------------------------------------
(* Specification SpecGrouper: one CommandGrouper whose owner calls          *)
(* startGroup, addToGroup (with a command made for the call) and endGroup   *)
(* while time passes.  A pending timer fires at its due time or at any time *)
(* after it, never before: setTimeout runs the callback once the delay has  *)
(* elapsed and the thread is free.  groupLog records, since the last        *)
(* startGroup: the group it opened, when, the times of the addToGroup       *)
(* calls, the commands passed, and whether a timer closed it.               *)

\* The edits the grouped commands make
GroupedEdits ==
    { [range |-> Rng(Pos(0, 1), Pos(0, 1)), text |-> <<"x">>],
      [range |-> Rng(Pos(0, 0), Pos(0, 1)), text |-> <<>>] }

InitGrouper ==
    /\ docs = <<TextDocumentImpl("file:///a", "plaintext", 1, <<"a", "b">>)>>
    /\ document = 1
    /\ selections = <<DefaultSelection>>
    /\ cmds = <<>>
    /\ undoStack = <<>>
    /\ redoStack = <<>>
    /\ maxStackSize = 0
    /\ execLog = <<>>
    /\ phase = "executing"
    /\ observed = <<>>
    /\ lastCall = NoCall
    /\ \E ms \in 1..MaxTimeout : grouper = CommandGrouper(ms)
    /\ groupLog = NoGroupLog
    /\ search = NoSearch
    /\ emitted = <<>>
    /\ Unused

\* Whether a timer is pending, as the `from` of a recorded grouper call
Armed == IF grouper.timers # {} THEN "armed" ELSE "unarmed"

\* The variables a CommandGrouper call sets, r = [grouper, W, ret] being its result
Grouped(op, c, r) ==
    /\ grouper' = r.grouper
    /\ docs' = r.W.docs
    /\ cmds' = r.W.cmds
    /\ lastCall' = Call(op, c, Armed, r.ret)
    /\ UNCHANGED <<options, tokenizer, emitter, host, registry, search, emitted, document, selections, undoStack, redoStack, maxStackSize,
                   execLog, phase, observed>>

\* grouper.startGroup(id, label)
StartGroup ==
    /\ Len(cmds) < MaxGrouperCmds
    /\ Grouped("startGroup", 0, CommandGrouper_startGroup(grouper, World))
    /\ groupLog' = [group |-> Len(cmds) + 1, start |-> grouper.now, adds |-> <<>>,
                    added |-> <<>>, autoClosed |-> FALSE]

\* grouper.addToGroup(new TextEditCommand(context, range, text))
AddToGroup ==
    \E e \in GroupedEdits :
        /\ Len(cmds) < MaxGrouperCmds
        /\ Grouped("addToGroup", Len(cmds) + 1,
                   CommandGrouper_addToGroup(
                       grouper,
                       [docs |-> docs,
                        cmds |-> Append(cmds, TextEditCommand(document, e.range, e.text))],
                       Len(cmds) + 1))
        /\ groupLog' = IF groupLog.group = 0 THEN groupLog
                       ELSE [groupLog EXCEPT !.adds = Append(@, grouper.now),
                                             !.added = Append(@, Len(cmds) + 1)]

\* The result of endGroup as a call result over an unchanged world
Ended(r) == [grouper |-> r.grouper, W |-> World, ret |-> r.ret]

\* grouper.endGroup()
EndGroup ==
    /\ Grouped("endGroup", 0, Ended(CommandGrouper_endGroup(grouper)))
    /\ groupLog' = NoGroupLog

\* A due timer fires: the host drops it and runs its callback, () => this.endGroup()
TimerFire ==
    \E t \in grouper.timers :
        /\ t.due <= grouper.now
        /\ Grouped("timer", t.group,
                   Ended(CommandGrouper_endGroup(
                            [grouper EXCEPT !.timers = @ \ {t}])))
        /\ groupLog' = [groupLog EXCEPT !.autoClosed = @ \/ grouper.currentGroup # 0]

\* One unit of time passes; a timer that is due may still be waiting to run
Tick ==
    /\ grouper.now < MaxTime
    /\ grouper' = [grouper EXCEPT !.now = @ + 1]
    /\ lastCall' = Call("tick", 0, Armed, "void")
    /\ UNCHANGED <<options, tokenizer, emitter, host, registry, search, emitted, docs, document, selections, cmds, undoStack, redoStack, maxStackSize,
                   execLog, phase, observed, groupLog>>

NextGrouper ==
    \/ StartGroup
    \/ AddToGroup
    \/ EndGroup
    \/ TimerFire
    \/ Tick

SpecGrouper == InitGrouper /\ [][NextGrouper]_vars

----------------------------------------------------------------------------
(* Claims about CommandGrouper, checked under SpecGrouper. *)

\* The time of the most recent addToGroup call since the last startGroup
LastAdd == groupLog.adds[Len(groupLog.adds)]

\* Since the last startGroup at least one addToGroup was called, and each
\* addToGroup came less than groupingTimeoutMs after the previous one
Live ==
    /\ groupLog.group # 0
    /\ groupLog.adds # <<>>
    /\ \A i \in 2..Len(groupLog.adds) :
            groupLog.adds[i] - groupLog.adds[i - 1] < grouper.groupingTimeoutMs

\* C12 as stated: while each addToGroup comes less than groupingTimeoutMs
\* after the previous one, the group opened by startGroup stays the current
\* group and holds every command passed, in order; each addToGroup restarts
\* the window (the pending timer is due groupingTimeoutMs after the most
\* recent one); and the group is closed by its timer exactly when
\* groupingTimeoutMs has elapsed since the most recent addToGroup, not before
\* and not later, so that getCurrentGroup() is null from then on.
C12_IdleWindow ==
    /\ [](Live =>
            /\ grouper.now - LastAdd < grouper.groupingTimeoutMs =>
                    /\ grouper.currentGroup = groupLog.group
                    /\ cmds[groupLog.group].commands = groupLog.added
            /\ grouper.currentGroup # 0 =>
                    \E t \in grouper.timers : t.due = LastAdd + grouper.groupingTimeoutMs
            /\ grouper.now - LastAdd > grouper.groupingTimeoutMs =>
                    grouper.currentGroup = 0)
    /\ [][ (Live /\ lastCall'.op = "timer" /\ grouper.currentGroup # 0) =>
                /\ grouper.now = LastAdd + grouper.groupingTimeoutMs
                /\ grouper'.currentGroup = 0 ]_vars

\* C13: when the group has been closed by its timer, the next addToGroup(cmd)
\* opens a fresh group (a new composite) that holds cmd.
C13_FreshGroupAfterAutoClose ==
    [][ (lastCall'.op = "addToGroup" /\ groupLog.autoClosed /\ grouper.currentGroup = 0) =>
            /\ grouper'.currentGroup # 0
            /\ grouper'.currentGroup # groupLog.group
            /\ cmds'[grouper'.currentGroup].commands = <<lastCall'.cmd>> ]_vars

\* C14: the endGroup() that follows startGroup and addToGroup(c1..cn) returns
\* the composite startGroup opened, holding exactly c1..cn in order, however
\* much time passed between the calls; it leaves no group open, executes no
\* command and does not touch CommandHistory.
C14_NoGroupedCommandLost ==
    [][ (lastCall'.op = "endGroup" /\ groupLog.group # 0) =>
            /\ lastCall'.ret = groupLog.group
            /\ cmds[groupLog.group].commands = groupLog.added
            /\ grouper'.currentGroup = 0
            /\ UNCHANGED <<docs, cmds, undoStack, redoStack>> ]_vars

\* C15: every pending timer is the one the grouper holds the handle of and
\* was armed for the group that is open now, so a pending timer implies an
\* open group; after endGroup or startGroup no timer is pending; and a timer
\* that fires while a group is open was armed for that group.
C15_TimerCancellation ==
    /\ [](/\ \A t \in grouper.timers :
                /\ grouper.currentGroup # 0
                /\ t.group = grouper.currentGroup
                /\ t.id = grouper.groupTimeout
          /\ lastCall.op \in {"endGroup", "startGroup"} => grouper.timers = {})
    /\ [][ (lastCall'.op = "timer" /\ grouper.currentGroup # 0) =>
                lastCall'.cmd = grouper.currentGroup ]_vars

\* C15 witness: startGroup was called while the timer of the previous group
\* was pending, and no timer is pending afterwards
C15_Witness ==
    /\ lastCall.op = "startGroup"
    /\ lastCall.from = "armed"
    /\ grouper.currentGroup # 0
    /\ grouper.timers = {}

\* The start of the current idle window: the most recent addToGroup, or the
\* startGroup when nothing has been added yet
WindowStart == IF groupLog.adds = <<>> THEN groupLog.start ELSE LastAdd

\* C16: an open group never outlives a full groupingTimeoutMs window without
\* an addToGroup call, the window of a group nothing was added to being
\* counted from its startGroup.
C16_OpenGroupAutoCloses ==
    grouper.currentGroup # 0 => grouper.now - WindowStart <= grouper.groupingTimeoutMs

----------------------------------------------------------------------------
(* Specification SpecBuffer: the LineBuffer of one document, called         *)
(* directly: setText, insertText, deleteText, replaceText and the read      *)
(* operations, with in-bounds, out-of-bounds and reversed arguments.        *)
(* lastCall records the call, its argument, its result and the text and     *)
(* version it found; for a deleteText of exactly the range that the         *)
(* insertText just before it returned, `of` is the record of that call.     *)

BufferPositions == { Pos(0, 1), Pos(1, 0), Pos(2, 9), Pos(-1, -1) }

BufferTexts == { <<>>, <<"x">>, <<"z", CR, LF>> }

BufferRanges == { e.range : e \in Edits }

SearchTexts == { <<"a">>, <<"b", "x">> }

SearchStarts == { Pos(0, 0), Pos(0, 1) }

ReadOps ==
    { "getText", "getTextRange", "getLineContent", "validatePosition", "validateRange",
      "offsetToPosition", "positionToOffset", "getWordRangeAtPosition", "findNext",
      "findAll" }

InitBuffer ==
    /\ \E content \in InitContents : docs = <<TextDocumentImpl("file:///a", "plaintext", 1, content)>>
    /\ document = 1
    /\ selections = <<DefaultSelection>>
    /\ cmds = <<>>
    /\ undoStack = <<>>
    /\ redoStack = <<>>
    /\ maxStackSize = 0
    /\ execLog = <<>>
    /\ phase = "executing"
    /\ observed = <<>>
    /\ lastCall = NoCall
    /\ grouper = NoGrouper
    /\ groupLog = NoGroupLog
    /\ search = NoSearch
    /\ emitted = <<>>
    /\ Unused

\* The buffer of the document, document.getBuffer()
Buffer == docs[document].buffer

BufferCall(op, arg, ret, of) ==
    [op |-> op, arg |-> arg, ret |-> ret, of |-> of,
     text |-> Text, version |-> Buffer.version]

BufferFrame ==
    UNCHANGED <<options, tokenizer, emitter, host, registry, search, emitted, document, selections, cmds, undoStack, redoStack, maxStackSize,
                execLog, phase, observed, grouper, groupLog>>

\* The variables a mutating LineBuffer call sets, buf being the buffer afterwards
Mutated(op, arg, ret, of, buf) ==
    /\ buf.version <= MaxBufferVersion
    /\ docs' = [docs EXCEPT ![document].buffer = buf]
    /\ lastCall' = BufferCall(op, arg, ret, of)
    /\ BufferFrame

\* The variables a read operation sets: none of them assigns to a field
Read(op, arg, ret) ==
    /\ lastCall' = BufferCall(op, arg, ret, NoCall)
    /\ UNCHANGED docs
    /\ BufferFrame

\* buffer.setText(content)
SetText ==
    \E content \in InitContents :
        Mutated("setText", content, "void", NoCall, setText(Buffer, content))

Inserted(arg, r) == Mutated("insertText", arg, r.range, NoCall, r.buffer)

\* buffer.insertText(position, text)
InsertTextAt ==
    \E position \in BufferPositions, text \in BufferTexts :
        Inserted([position |-> position, text |-> text],
                 insertText(Buffer, position, text))

Deleted(range, r) ==
    Mutated("deleteText", range, r.deletedText,
            IF lastCall.op = "insertText" /\ lastCall.ret = range THEN lastCall ELSE NoCall,
            r.buffer)

\* buffer.deleteText(range), the range being one of BufferRanges or the range
\* the call just before, an insertText, returned
DeleteRange ==
    \E range \in BufferRanges \cup (IF lastCall.op = "insertText" THEN {lastCall.ret} ELSE {}) :
        Deleted(range, deleteText(Buffer, range))

Replaced(arg, r) == Mutated("replaceText", arg, r.range, NoCall, r.buffer)

\* buffer.replaceText(range, text)
ReplaceRange ==
    \E range \in BufferRanges, text \in BufferTexts :
        Replaced([range |-> range, text |-> text], replaceText(Buffer, range, text))

GetText == Read("getText", 0, getText(Buffer))

GetTextRange ==
    \E range \in BufferRanges : Read("getTextRange", range, getTextRange(Buffer, range))

GetLineContent ==
    \E line \in -1..2 : Read("getLineContent", line, getLineContent(Buffer, line))

\* Positions and ranges validated: those above, positions outside the buffer
\* in one coordinate or in both directions, and a range between two of them
\* given end first
ValidatedPositions == BufferPositions \cup { Pos(-5, 9), Pos(9, -5), Pos(0, 9) }
ValidatedRanges == BufferRanges \cup { Rng(Pos(9, -5), Pos(-5, 9)) }

ValidatePosition ==
    \E position \in ValidatedPositions :
        Read("validatePosition", position, validatePosition(Buffer, position))

ValidateRange ==
    \E range \in ValidatedRanges : Read("validateRange", range, validateRange(Buffer, range))

OffsetToPosition ==
    \E offset \in 0..(Len(Text) + 1) :
        Read("offsetToPosition", offset, offsetToPosition(Buffer, offset))

PositionToOffset ==
    \E position \in BufferPositions :
        Read("positionToOffset", position, positionToOffset(Buffer, position))

GetWordRangeAtPosition ==
    \E position \in BufferPositions :
        Read("getWordRangeAtPosition", position, getWordRangeAtPosition(Buffer, position))

FindNext ==
    \E searchText \in SearchTexts, position \in SearchStarts :
        Read("findNext", [searchText |-> searchText, startPosition |-> position],
             findNext(Buffer, searchText, position))

FindAll ==
    \E searchText \in SearchTexts : Read("findAll", searchText, findAll(Buffer, searchText))

NextBuffer ==
    \/ SetText
    \/ InsertTextAt
    \/ DeleteRange
    \/ ReplaceRange
    \/ GetText
    \/ GetTextRange
    \/ GetLineContent
    \/ ValidatePosition
    \/ ValidateRange
    \/ OffsetToPosition
    \/ PositionToOffset
    \/ GetWordRangeAtPosition
    \/ FindNext
    \/ FindAll

SpecBuffer == InitBuffer /\ [][NextBuffer]_vars

----------------------------------------------------------------------------
(* Claims about LineBuffer, checked under SpecBuffer, and about the version *)
(* of a document, checked under Spec.                                       *)

\* C17: every setText, insertText and deleteText call increases the version
\* of the buffer by exactly 1 and every replaceText call by exactly 2; no
\* read operation changes the version (or anything else of the buffer); and
\* the version never decreases.
C17_VersionAccounting ==
    [][ /\ lastCall'.op \in {"setText", "insertText", "deleteText"} =>
                docs'[document].buffer.version = Buffer.version + 1
        /\ lastCall'.op = "replaceText" =>
                docs'[document].buffer.version = Buffer.version + 2
        /\ lastCall'.op \in ReadOps => docs' = docs
        /\ docs'[document].buffer.version >= Buffer.version ]_vars

\* C17 witness: a replaceText that changed the text has taken the version
\* from 1 to 3
C17_Witness ==
    /\ lastCall.op = "replaceText"
    /\ lastCall.version = 1
    /\ Buffer.version = 3
    /\ Text # lastCall.text

\* C18: whenever a command's execute, undo or redo changes the text of the
\* document's buffer, document.version afterwards is greater than before.
C18_DocumentVersionTracksText ==
    [][ getText(docs'[document].buffer) # Text =>
            docs'[document].version > docs[document].version ]_vars

\* C19: r = insertText(p, text) followed immediately by deleteText(r) leaves
\* getText() equal to the text before the insert, returns the inserted text
\* with its line endings normalised to the buffer's, and leaves the version
\* at the original + 2, for any position (in bounds or not) and any text.
C19_InsertDeleteRoundTrip ==
    (lastCall.op = "deleteText" /\ lastCall.of.op = "insertText") =>
        /\ Text = lastCall.of.text
        /\ lastCall.ret = join(split(lastCall.of.arg.text), Buffer.lineEndings)
        /\ Buffer.version = lastCall.of.version + 2

\* C19 witness: a text ending in \r\n was inserted at a position outside a
\* non-empty buffer and the returned range was deleted again
C19_Witness ==
    /\ lastCall.op = "deleteText"
    /\ lastCall.of.op = "insertText"
    /\ lastCall.of.arg.text = <<"z", CR, LF>>
    /\ lastCall.of.arg.position = Pos(2, 9)
    /\ Len(lastCall.of.text) > 0

\* C20: for every offset o with 0 <= o <= length of getText(),
\* offsetToPosition(o) is an in-bounds position (validatePosition returns it
\* unchanged) and positionToOffset(offsetToPosition(o)) = o.
C20_OffsetRoundTrip ==
    (lastCall.op = "offsetToPosition" /\ lastCall.arg <= Len(Text)) =>
        /\ validatePosition(Buffer, lastCall.ret) = lastCall.ret
        /\ positionToOffset(Buffer, lastCall.ret) = lastCall.arg

\* The integer `n` clamped into [lo, hi]
clamped(n, lo, hi) == IF n < lo THEN lo ELSE IF n > hi THEN hi ELSE n

\* Position `p` with its line clamped into [0, lineCount - 1] and its column
\* into [0, length of that line]
ClampedPosition(p) ==
    Pos(clamped(p.line, 0, Len(Buffer.lines) - 1),
        clamped(p.column, 0, Len(Buffer.lines[clamped(p.line, 0, Len(Buffer.lines) - 1) + 1])))

\* C26: validatePosition returns, for any integer line and column, the
\* position with the line clamped into [0, lineCount-1] and the column into
\* [0, length of the clamped line]; validateRange returns the two validated
\* ends with start lexicographically <= end, swapped if necessary; and both
\* are idempotent.
C26_ValidationTotal ==
    /\ lastCall.op = "validatePosition" =>
        /\ lastCall.ret = ClampedPosition(lastCall.arg)
        /\ validatePosition(Buffer, lastCall.ret) = lastCall.ret
    /\ lastCall.op = "validateRange" =>
        /\ \/ lastCall.ret = Rng(ClampedPosition(lastCall.arg.start),
                                 ClampedPosition(lastCall.arg.end))
           \/ lastCall.ret = Rng(ClampedPosition(lastCall.arg.end),
                                 ClampedPosition(lastCall.arg.start))
        /\ ~isPositionBefore(lastCall.ret.end, lastCall.ret.start)
        /\ validateRange(Buffer, lastCall.ret) = lastCall.ret

\* C26 witness: a range whose ends lie outside a two-line buffer, in both
\* coordinates and end first, was validated to the whole buffer
C26_Witness ==
    /\ lastCall.op = "validateRange"
    /\ lastCall.arg = Rng(Pos(9, -5), Pos(-5, 9))
    /\ Len(Buffer.lines) = 2
    /\ lastCall.ret.start = Pos(0, Len(Buffer.lines[1]))
    /\ lastCall.ret.end = Pos(1, 0)

\* C29: the line sequence of a LineBuffer is never empty: after construction
\* with any content and after any sequence of setText, insertText, deleteText
\* and replaceText calls, lineCount >= 1.
C29_LinesNeverEmpty == Len(Buffer.lines) >= 1

\* C29 witness: a deleteText across the line break of a two-line buffer left
\* a single line
C29_Witness ==
    /\ lastCall.op = "deleteText"
    /\ includes(lastCall.ret, Buffer.lineEndings)
    /\ Len(Buffer.lines) = 1

\* C30: getLineContent(line) with line < 0 or line >= lineCount throws, and
\* the failed call leaves the buffer's text and version unchanged.
C30_LineAccessFailsLoudly ==
    [][ ( /\ lastCall'.op = "getLineContent"
          /\ (lastCall'.arg < 0 \/ lastCall'.arg >= Len(Buffer.lines)) ) =>
            /\ lastCall'.ret.thrown
            /\ getText(docs'[document].buffer) = Text
            /\ docs'[document].buffer.version = Buffer.version ]_vars

\* C30 witness: getLineContent(lineCount) was called on a non-empty buffer and threw
C30_Witness ==
    /\ lastCall.op = "getLineContent"
    /\ lastCall.arg = Len(Buffer.lines)
    /\ Len(Text) > 0
    /\ lastCall.ret.thrown

\* The text of `buf` before position p and from position p on
textBefore(buf, p) == getTextRange(buf, Rng(Pos(0, 0), p))
textAfter(buf, p) ==
    getTextRange(buf, Rng(p, Pos(Len(buf.lines) - 1, Len(buf.lines[Len(buf.lines)]))))

\* The range v, validated before replaceText(range, text), is what the call
\* replaced in `buf`, `after` being the buffer after the call and `ret` the
\* range it returned
ReplacedExactly(buf, v, text, after, ret) ==
    /\ getText(after) = textBefore(buf, v.start) \o text \o textAfter(buf, v.end)
    /\ ret.start = v.start
    /\ getTextRange(after, ret) = text

\* C31: for every buffer, every range (ends possibly out of bounds or given
\* end first) and every text, with v = validateRange(range) taken before
\* the call, the text after replaceText(range, text) is the text before
\* v.start, then text, then the text after v.end; the returned range starts
\* at v.start and covers exactly the inserted text.
C31_ReplaceValidatedRange ==
    [][ lastCall'.op = "replaceText" =>
            ReplacedExactly(Buffer, validateRange(Buffer, lastCall'.arg.range),
                            lastCall'.arg.text, docs'[document].buffer,
                            lastCall'.ret) ]_vars

----------------------------------------------------------------------------
(* Specification SpecFind: LineBuffer.findAll on one buffer, one iteration  *)
(* of its loop at a time.  `search` is the call in progress: its arguments, *)
(* its locals `position` and `ranges`, and where it stands (pc).            *)

\* Buffer contents searched: none, letters in both cases, a repeated letter,
\* and two lines with each line-ending style
FindContents ==
    { <<>>,
      <<"a", "b", "A", "B">>,
      <<"a", "a", "a">>,
      <<"a", LF, "a">>,
      <<"a", CR, "b">>,
      <<"a", CR, LF, "b">> }

\* Search texts: the empty text, letters, and line-break characters
FindTexts == { <<>>, <<"a">>, <<"a", "b">>, <<"a", "a">>, <<LF>>, <<CR>> }

InitFind ==
    /\ \E content \in FindContents : docs = <<TextDocumentImpl("file:///a", "plaintext", 1, content)>>
    /\ document = 1
    /\ selections = <<DefaultSelection>>
    /\ cmds = <<>>
    /\ undoStack = <<>>
    /\ redoStack = <<>>
    /\ maxStackSize = 0
    /\ execLog = <<>>
    /\ phase = "executing"
    /\ observed = <<>>
    /\ lastCall = NoCall
    /\ grouper = NoGrouper
    /\ groupLog = NoGroupLog
    /\ search = NoSearch
    /\ emitted = <<>>
    /\ Unused

FindFrame ==
    UNCHANGED <<options, tokenizer, emitter, host, registry, docs, document, selections, cmds, undoStack, redoStack, maxStackSize,
                execLog, phase, observed, lastCall, grouper, groupLog, emitted>>

\* findAll(searchText, {caseSensitive}) is called: ranges = [], position = (0, 0)
FindAllCall ==
    \E searchText \in FindTexts, caseSensitive \in BOOLEAN :
        /\ search.pc \in {"idle", "returned"}
        /\ search' = [pc |-> "loop", searchText |-> searchText,
                      caseSensitive |-> caseSensitive,
                      position |-> Pos(0, 0), ranges |-> <<>>]
        /\ FindFrame

\* One iteration of the loop, m being what findNext returned: break on null,
\* else ranges.push(range); position = range.end
Iterated(m) ==
    /\ m.found => Len(search.ranges) < MaxRanges
    /\ search' = IF ~m.found THEN [search EXCEPT !.pc = "returned"]
                 ELSE [search EXCEPT !.ranges = Append(@, m.range),
                                     !.position = m.range.end]
    /\ FindFrame

FindAllIterate ==
    /\ search.pc = "loop"
    /\ Iterated(findNextWith(Buffer, search.searchText, search.position,
                             search.caseSensitive))

NextFind ==
    \/ FindAllCall
    \/ FindAllIterate

SpecFind == InitFind /\ [][NextFind]_vars

\* C21: findAll terminates for every buffer, search text and option set,
\* search texts that match the empty string included: each iteration of its
\* loop strictly advances the search position (as an offset into the text).
C21_FindAllAdvances ==
    [][ (search.pc = "loop" /\ search'.pc = "loop") =>
            positionToOffset(Buffer, search'.position) >
                positionToOffset(Buffer, search.position) ]_vars

\* The offsets of the non-overlapping occurrences of `searchText` in `text`,
\* scanning left to right from offset `from`
RECURSIVE occurrencesFrom(_, _, _)
occurrencesFrom(text, searchText, from) ==
    IF \A i \in from..Len(text) : ~matchesAt(text, searchText, i) THEN <<>>
    ELSE <<indexOfFrom(text, searchText, from)>> \o
         occurrencesFrom(text, searchText,
                         indexOfFrom(text, searchText, from) + Len(searchText))

\* The occurrences findAll is to report for the call `search`
Occurrences ==
    occurrencesFrom(flagged(Text, search.caseSensitive),
                    flagged(search.searchText, search.caseSensitive), 0)

\* C22: findAll with a non-empty literal search text returns, in strictly
\* increasing document order, the ranges of exactly the non-overlapping
\* occurrences found scanning the text left to right, and the text of each
\* returned range is the search text (ignoring case unless caseSensitive).
C22_FindAllOccurrences ==
    (search.pc = "returned" /\ search.searchText # <<>>) =>
        /\ Len(search.ranges) = Len(Occurrences)
        /\ \A k \in 1..Len(search.ranges) :
            /\ positionToOffset(Buffer, search.ranges[k].start) = Occurrences[k]
            /\ flagged(getTextRange(Buffer, search.ranges[k]), search.caseSensitive) =
                    flagged(search.searchText, search.caseSensitive)
            /\ k > 1 => isPositionBefore(search.ranges[k - 1].start,
                                         search.ranges[k].start)

----------------------------------------------------------------------------
(* Specification SpecDoc: documents as snapshots.  A first document is      *)
(* constructed; callers edit the buffer of any document in place            *)
(* (getBuffer().replaceText) and call applyChanges on any document, which   *)
(* creates a further document.                                              *)

Uris == { "file:///a", "file:///b" }
LanguageIds == { "plaintext" }

\* Contents of the first document: one line, and two lines ending in \n and in \r\n
DocContents ==
    { <<"a", "b">>,
      <<"a", "b", LF, "c">>,
      <<"a", "b", CR, LF, "c">> }

\* The changes of a batch: a replaced character, the character before it
\* replaced through a range given end first, and text with a line break
\* inserted at the start of the second line (outside a one-line document)
DocChanges ==
    { [range |-> Rng(Pos(0, 1), Pos(0, 2)), text |-> <<"x">>],
      [range |-> Rng(Pos(0, 1), Pos(0, 0)), text |-> <<"y">>],
      [range |-> Rng(Pos(1, 0), Pos(1, 0)), text |-> <<"z", LF>>] }

\* Batches of none to MaxChanges changes, in every order
ChangeLists == UNION { [1..n -> DocChanges] : n \in 0..MaxChanges }

InitDoc ==
    /\ \E uri \in Uris, languageId \in LanguageIds, content \in DocContents :
            docs = <<TextDocumentImpl(uri, languageId, 1, content)>>
    /\ document = 1
    /\ selections = <<DefaultSelection>>
    /\ cmds = <<>>
    /\ undoStack = <<>>
    /\ redoStack = <<>>
    /\ maxStackSize = 0
    /\ execLog = <<>>
    /\ phase = "executing"
    /\ observed = <<>>
    /\ lastCall = NoCall
    /\ grouper = NoGrouper
    /\ groupLog = NoGroupLog
    /\ search = NoSearch
    /\ emitted = <<>>
    /\ Unused

DocFrame ==
    UNCHANGED <<options, tokenizer, emitter, host, registry, document, selections, cmds, undoStack, redoStack, maxStackSize,
                execLog, phase, observed, grouper, groupLog, search, emitted>>

\* What a call on document d with argument arg returned
DocCall(op, d, arg, ret) == [op |-> op, of |-> d, arg |-> arg, ret |-> ret]

\* The replaceText calls made on the buffers of `heap` since their construction
RECURSIVE InPlaceEdits(_)
InPlaceEdits(heap) ==
    IF heap = <<>> THEN 0
    ELSE (heap[1].buffer.version - 1) \div 2 + InPlaceEdits(Tail(heap))

\* docs[d].getBuffer().replaceText(range, text), buf being the buffer afterwards
EditedInPlace(d, change, buf) ==
    /\ InPlaceEdits(docs) < MaxInPlaceEdits
    /\ docs' = [docs EXCEPT ![d].buffer = buf]
    /\ lastCall' = DocCall("replaceText", d, change, 0)
    /\ DocFrame

EditInPlace ==
    \E d \in 1..Len(docs), change \in DocChanges :
        EditedInPlace(d, change,
                      replaceText(docs[d].buffer, change.range, change.text).buffer)

\* docs[d].applyChanges(changes), W being the world afterwards
Applied(d, changes, W) ==
    /\ Len(docs) + Len(cmds) < MaxDocs
    /\ docs' = W.docs
    /\ lastCall' = DocCall("applyChanges", d, changes, Len(W.docs))
    /\ DocFrame

ApplyChanges ==
    \E d \in 1..Len(docs), changes \in ChangeLists :
        Applied(d, changes, TextDocumentImpl_applyChanges(World, d, changes))

\* The edits of a multi-cursor edit: a replaced character, a character
\* inserted before it on the same line, and text with a line break inserted
\* at the start of the second line
MultiCursorEdits ==
    { [range |-> Rng(Pos(0, 1), Pos(0, 2)), text |-> <<"x">>],
      [range |-> Rng(Pos(0, 0), Pos(0, 0)), text |-> <<"w">>],
      [range |-> Rng(Pos(1, 0), Pos(1, 0)), text |-> <<"z", LF>>] }

\* Lists of one to MaxChanges edits, in every order
MultiCursorEditLists == UNION { [1..n -> MultiCursorEdits] : n \in 1..MaxChanges }

\* BuiltInCommands.createMultiCursorEditCommand(context, edits).execute(), the
\* context holding document d and W being the world afterwards
MultiCursorEdited(d, edits, W) ==
    /\ docs' = W.docs
    /\ cmds' = W.cmds
    /\ lastCall' = [op |-> "multiCursorEdit", of |-> d, arg |-> edits, ret |-> Len(W.cmds),
                    before |-> docs[d]]
    /\ UNCHANGED <<options, tokenizer, emitter, host, registry, document, selections, undoStack, redoStack, maxStackSize,
                   execLog, phase, observed, grouper, groupLog, search, emitted>>

\* The command is the first one made, while the heap may still take objects,
\* and is executed on a document whose buffer was not edited before
ExecuteMultiCursorEditOn ==
    \E d \in 1..Len(docs), edits \in MultiCursorEditLists :
        /\ docs[d].buffer.version = 1
        /\ Len(docs) < MaxDocs
        /\ Len(cmds) + Len(edits) <= MaxChanges
        /\ MultiCursorEdited(d, edits,
                Command_execute([docs |-> docs,
                                 cmds |-> createMultiCursorEditCommand(cmds, d, edits)],
                                Len(cmds) + Len(edits) + 1))

NextDoc ==
    \/ EditInPlace
    \/ ApplyChanges
    \/ ExecuteMultiCursorEditOn

SpecDoc == InitDoc /\ [][NextDoc]_vars

\* C23: applyChanges returns a new document with the same uri and languageId
\* and version = the original's version + 1, and does not mutate the
\* original: its text, lineCount and version (and every other document) are
\* after the call what they were before, for any list of changes.
C23_ApplyChangesIsASnapshot ==
    [][ lastCall'.op = "applyChanges" =>
            /\ Len(docs') = Len(docs) + 1
            /\ lastCall'.ret = Len(docs')
            /\ docs'[lastCall'.ret].uri = docs[lastCall'.of].uri
            /\ docs'[lastCall'.ret].languageId = docs[lastCall'.of].languageId
            /\ docs'[lastCall'.ret].version = docs[lastCall'.of].version + 1
            /\ \A d \in 1..Len(docs) :
                /\ getText(docs'[d].buffer) = getText(docs[d].buffer)
                /\ Len(docs'[d].buffer.lines) = Len(docs[d].buffer.lines)
                /\ docs'[d].version = docs[d].version
                /\ docs'[d].buffer.version = docs[d].buffer.version ]_vars

\* C23 witness: applyChanges with two changes has returned a version 2
\* document whose text differs from that of the original
C23_Witness ==
    /\ lastCall.op = "applyChanges"
    /\ Len(lastCall.arg) = 2
    /\ docs[lastCall.ret].version = 2
    /\ docs[lastCall.ret].uri = "file:///b"
    /\ getText(docs[lastCall.ret].buffer) # getText(docs[lastCall.of].buffer)

\* The offsets in the text of `buf` at which the range of `change`, put in
\* order, starts and ends
startOffset(buf, change) ==
    Min(positionToOffset(buf, change.range.start), positionToOffset(buf, change.range.end))
endOffset(buf, change) ==
    Max(positionToOffset(buf, change.range.start), positionToOffset(buf, change.range.end))

\* Both ends of the range of `change` are positions of `buf`
InBounds(buf, change) ==
    /\ validatePosition(buf, change.range.start) = change.range.start
    /\ validatePosition(buf, change.range.end) = change.range.end

\* The ranges of `changes` do not overlap and start at different positions
Disjoint(buf, changes) ==
    \A i, j \in 1..Len(changes) : i < j =>
        /\ startOffset(buf, changes[i]) # startOffset(buf, changes[j])
        /\ \/ endOffset(buf, changes[i]) <= startOffset(buf, changes[j])
           \/ endOffset(buf, changes[j]) <= startOffset(buf, changes[i])

\* `text` with the characters from offset `from` up to offset `to` replaced
replaced(text, from, to, by) ==
    SubSeq(text, 1, from) \o by \o SubSeq(text, to + 1, Len(text))

\* sequence `seq` without its k-th element
without(seq, k) == SubSeq(seq, 1, k - 1) \o SubSeq(seq, k + 1, Len(seq))

\* The index of the change of `changes` that starts last in `buf`
lastStarting(buf, changes) ==
    CHOOSE k \in 1..Len(changes) :
        \A i \in 1..Len(changes) :
            startOffset(buf, changes[i]) <= startOffset(buf, changes[k])

\* `text`, the text of `buf`, with the range of every change of `changes` (in
\* the coordinates of `buf`) replaced by the text of the change
RECURSIVE withChanges(_, _, _)
withChangeAt(text, buf, changes, k) ==
    withChanges(replaced(text, startOffset(buf, changes[k]), endOffset(buf, changes[k]),
                         changes[k].text),
                buf, without(changes, k))
withChanges(text, buf, changes) ==
    IF changes = <<>> THEN text
    ELSE withChangeAt(text, buf, changes, lastStarting(buf, changes))

\* C24: for any batch of in-bounds changes whose ranges are pairwise
\* non-overlapping and start at different positions, the text of the
\* document applyChanges returns is the original text with every range (in
\* the original's coordinates) replaced by its change text, whatever the
\* order of the changes in the batch.
C24_BatchApplication ==
    ( /\ lastCall.op = "applyChanges"
      /\ \A i \in 1..Len(lastCall.arg) : InBounds(docs[lastCall.of].buffer, lastCall.arg[i])
      /\ Disjoint(docs[lastCall.of].buffer, lastCall.arg) ) =>
        getText(docs[lastCall.ret].buffer) =
            withChanges(getText(docs[lastCall.of].buffer), docs[lastCall.of].buffer,
                        lastCall.arg)

\* The text of the document docs[d].applyChanges(changes) returns
textAfterChanges(W, d, changes) ==
    getText(TextDocumentImpl_applyChanges(W, d, changes).docs[Len(W.docs) + 1].buffer)

\* C32: for every batch of in-bounds, pairwise non-overlapping edits with
\* distinct start positions, in any order, executing
\* createMultiCursorEditCommand(context, edits) on the live buffer leaves the
\* text that applyChanges(edits) gives for the same starting text.
C32_MultiCursorAgreesWithBatch ==
    ( /\ lastCall.op = "multiCursorEdit"
      /\ \A i \in 1..Len(lastCall.arg) : InBounds(lastCall.before.buffer, lastCall.arg[i])
      /\ Disjoint(lastCall.before.buffer, lastCall.arg) ) =>
        getText(docs[lastCall.of].buffer) =
            textAfterChanges([docs |-> [docs EXCEPT ![lastCall.of] = lastCall.before],
                              cmds |-> cmds],
                             lastCall.of, lastCall.arg)

----------------------------------------------------------------------------
(* Specification SpecTokens: a Tokenizer and one document.  Languages are   *)
(* registered (with a LanguageDefinition that has no rules, so that every   *)
(* character becomes a Text token), the document is tokenized in full,      *)
(* over a range or incrementally, and commands edit the document's buffer   *)
(* in between.                                                              *)

\* Tokenizer.getCacheKey: `${uri}:${version}:${rangeKey}`, as its three parts;
\* the range is <<>> when absent and <<range>> when given, the range key
\* <<>> for 'full' and the four numbers otherwise
getCacheKey(doc, range) ==
    [uri |-> doc.uri, version |-> doc.version,
     rangeKey |-> IF range = <<>> THEN <<>>
                  ELSE <<range[1].start.line, range[1].start.column,
                         range[1].end.line, range[1].end.column>>]

\* Tokenizer.tokenizeLine for a language without rules: one Text token for
\* every character of the line
tokenizeLine(lineText, line, startColumn) ==
    [i \in 1..Len(lineText) |->
        [type |-> "text", text |-> <<lineText[i]>>,
         range |-> Rng(Pos(line, startColumn + i - 1), Pos(line, startColumn + i))]]

\* the loop of Tokenizer.tokenizeWithLanguage over lines[lineIndex..]
RECURSIVE tokenizeLines(_, _, _, _)
tokenizeLines(lines, lineIndex, startLine, startColumn) ==
    IF lineIndex > Len(lines) THEN <<>>
    ELSE tokenizeLine(lines[lineIndex], startLine + lineIndex - 1,
                      IF lineIndex = 1 THEN startColumn ELSE 0)
         \o tokenizeLines(lines, lineIndex + 1, startLine, startColumn)

\* document.getText(range) or document.getText()
textOf(doc, range) ==
    IF range = <<>> THEN getText(doc.buffer) ELSE getTextRange(doc.buffer, range[1])

\* range?.start, {0, 0} when the range is absent
startOf(range) == IF range = <<>> THEN Pos(0, 0) ELSE range[1].start

\* Tokenizer.tokenizeWithLanguage
tokenizeWithLanguage(doc, range) ==
    tokenizeLines(splitLF(textOf(doc, range)), 1, startOf(range).line, startOf(range).column)

\* Tokenizer.tokenizeAsPlainText: one token that holds the whole text
tokenizeAsPlainText(doc, range) ==
    <<[type |-> "text", text |-> textOf(doc, range),
       range |-> Rng(startOf(range),
                     Pos(startOf(range).line,
                         startOf(range).column + Len(textOf(doc, range))))]>>

\* The entries of the cache under `key`: the Map holds at most one
cachedUnder(T, key) == { e \in T.tokenCache : e.key = key }

\* the end of Tokenizer.tokenize on a cache miss: tokenize and store
tokenizedAndCached(T, key, tokens) ==
    [tokenizer |-> [T EXCEPT !.tokenCache = @ \cup {[key |-> key, tokens |-> tokens]}],
     tokens |-> tokens]

\* Tokenizer.tokenize
Tokenizer_tokenize(T, doc, range) ==
    IF doc.languageId \notin T.languageDefinitions
    THEN [tokenizer |-> T, tokens |-> tokenizeAsPlainText(doc, range)]
    ELSE IF cachedUnder(T, getCacheKey(doc, range)) # {}
    THEN [tokenizer |-> T,
          tokens |-> (CHOOSE e \in cachedUnder(T, getCacheKey(doc, range)) : TRUE).tokens]
    ELSE tokenizedAndCached(T, getCacheKey(doc, range), tokenizeWithLanguage(doc, range))

\* Tokenizer.clearCacheForDocument(uri): the entries whose key starts with
\* `${uri}:` are deleted; no uri of the model is a prefix of another
clearCacheForDocument(T, uri) ==
    [T EXCEPT !.tokenCache = { e \in @ : e.key.uri # uri }]

\* Tokenizer.tokenizeIncremental(document, previousTokens, change): the
\* entries of the document are deleted and the whole document is tokenized
Tokenizer_tokenizeIncremental(T, doc) ==
    Tokenizer_tokenize(clearCacheForDocument(T, doc.uri), doc, <<>>)

\* Tokenizer.registerLanguage: clearCacheForLanguage clears the whole cache
Tokenizer_registerLanguage(T, languageId) ==
    [languageDefinitions |-> T.languageDefinitions \cup {languageId}, tokenCache |-> {}]

\* The languages of documents; definitions are registered for the second
TokenLanguageIds == { "plaintext", "notes" }

\* The ranges tokenize is called with: none, and the first character
TokenRanges == { <<>>, <<Rng(Pos(0, 0), Pos(0, 1))>> }

InitTokens ==
    /\ \E languageId \in TokenLanguageIds, content \in DocContents :
            docs = <<TextDocumentImpl("file:///a", languageId, 1, content)>>
    /\ document = 1
    /\ selections = <<DefaultSelection>>
    /\ cmds = <<>>
    /\ undoStack = <<>>
    /\ redoStack = <<>>
    /\ maxStackSize = 0
    /\ execLog = <<>>
    /\ phase = "executing"
    /\ observed = <<>>
    /\ lastCall = NoCall
    /\ grouper = NoGrouper
    /\ groupLog = NoGroupLog
    /\ search = NoSearch
    /\ emitted = <<>>
    /\ Unused

TokenFrame ==
    UNCHANGED <<document, selections, undoStack, redoStack, maxStackSize, execLog, phase,
                observed, grouper, groupLog, search, emitted, options, emitter, host,
                registry>>

\* tokenizer.registerLanguage(definition), not registered before
RegisterLanguage ==
    \E languageId \in {"notes"} \ tokenizer.languageDefinitions :
        /\ tokenizer' = Tokenizer_registerLanguage(tokenizer, languageId)
        /\ lastCall' = [op |-> "registerLanguage", of |-> 0, arg |-> <<>>, ret |-> <<>>]
        /\ UNCHANGED <<docs, cmds>>
        /\ TokenFrame

\* tokenizer.tokenize(docs[d], range), r being the result
Tokenized(d, range, r) ==
    /\ tokenizer' = r.tokenizer
    /\ lastCall' = [op |-> "tokenize", of |-> d, arg |-> range, ret |-> r.tokens]
    /\ UNCHANGED <<docs, cmds>>
    /\ TokenFrame

Tokenize ==
    \E d \in 1..Len(docs), range \in TokenRanges :
        Tokenized(d, range, Tokenizer_tokenize(tokenizer, docs[d], range))

\* tokenizer.tokenizeIncremental(docs[d], previousTokens, change)
TokenizeIncremental ==
    \E d \in 1..Len(docs) :
        /\ tokenizer' = Tokenizer_tokenizeIncremental(tokenizer, docs[d]).tokenizer
        /\ lastCall' = [op |-> "tokenizeIncremental", of |-> d, arg |-> <<>>,
                        ret |-> Tokenizer_tokenizeIncremental(tokenizer, docs[d]).tokens]
        /\ UNCHANGED <<docs, cmds>>
        /\ TokenFrame

\* new TextEditCommand(context, range, text).execute() on the buffer of
\* docs[d], W being the world afterwards
TokenEdited(W) ==
    /\ docs' = W.docs
    /\ cmds' = W.cmds
    /\ lastCall' = [op |-> "command.execute", of |-> Len(W.cmds), arg |-> <<>>, ret |-> <<>>]
    /\ UNCHANGED tokenizer
    /\ TokenFrame

ExecuteTokenEdit ==
    \E d \in 1..Len(docs), e \in Edits :
        /\ Len(cmds) < MaxTokenEdits
        /\ TokenEdited(Command_execute(
                [docs |-> docs,
                 cmds |-> Append(cmds, createReplaceTextCommand(d, e.range, e.text))],
                Len(cmds) + 1))

NextTokens ==
    \/ RegisterLanguage
    \/ Tokenize
    \/ TokenizeIncremental
    \/ ExecuteTokenEdit

SpecTokens == InitTokens /\ [][NextTokens]_vars

\* The tokens of the current text of `doc` over `range`
currentTokens(T, doc, range) ==
    IF doc.languageId \in T.languageDefinitions
    THEN tokenizeWithLanguage(doc, range)
    ELSE tokenizeAsPlainText(doc, range)

\* C35: tokenize(document, range) returns the tokens of the document's
\* current text, never tokens computed from a different text, also after
\* commands have edited the document's buffer.
C35_TokensAreCurrent ==
    lastCall.op = "tokenize" =>
        lastCall.ret = currentTokens(tokenizer, docs[lastCall.of], lastCall.arg)

----------------------------------------------------------------------------
(* Specification SpecEmitter: one TypedEventEmitter and one event.  The     *)
(* emitter is [listeners, onceListeners, isDisposed, frames, objects,       *)
(* disposables, emits]: the two Sets of the event in insertion order (<<>>: *)
(* the Map has no entry), the stack of emit calls in progress, each with    *)
(* the copy of the Set it is iterating, the listener functions made so far, *)
(* the Disposables on() and once() have returned, and the number of emit    *)
(* calls made.  A listener is plain, or emits the event again the first     *)
(* time it runs, or registers a plain once-listener the first time it runs. *)
(* Listeners run to completion: nothing is called from outside while an     *)
(* emit is in progress.  Of a listener function the model keeps, as         *)
(* history, since its last registration with once: the number of emit calls *)
(* made before, how often a loop over once listeners has invoked it, the    *)
(* emit call that did so first, and whether off, a Disposable,              *)
(* removeAllListeners or dispose has removed it from the once listeners.    *)

\* What a listener function does when it is invoked
ListenerBodies == { "plain", "emits", "registers" }

\* A listener function
Listener(does) ==
    [does |-> does, runs |-> 0, isOnce |-> FALSE, registeredAt |-> 0, invoked |-> 0,
     invokedBy |-> 0, cancelled |-> FALSE]

\* The emitter, a new listener function having been made
newListener(Em, does) == [Em EXCEPT !.objects = Append(@, Listener(does))]

\* Set.has(l)
has(set, l) == \E i \in 1..Len(set) : set[i] = l

\* Set.delete(l)
RECURSIVE setDelete(_, _)
setDelete(set, l) ==
    IF set = <<>> THEN <<>>
    ELSE IF Head(set) = l THEN setDelete(Tail(set), l)
    ELSE <<Head(set)>> \o setDelete(Tail(set), l)

\* return new DisposableImpl(() => { this.off(event, listener) })
withDisposable(Em, l) ==
    [Em EXCEPT !.disposables = Append(@, [listener |-> l, isDisposed |-> FALSE])]

\* TypedEventEmitter.on(event, l): it throws on a disposed emitter; a Set
\* holds a function once
TypedEventEmitter_on(Em, l) ==
    IF Em.isDisposed THEN Em
    ELSE withDisposable(IF has(Em.listeners, l) THEN Em
                        ELSE [Em EXCEPT !.listeners = Append(@, l)],
                        l)

\* TypedEventEmitter.once(event, l)
TypedEventEmitter_once(Em, l) ==
    IF Em.isDisposed THEN Em
    ELSE withDisposable(
            IF has(Em.onceListeners, l) THEN Em
            ELSE [Em EXCEPT !.onceListeners = Append(@, l),
                            !.objects[l] = [@ EXCEPT !.isOnce = TRUE,
                                                     !.registeredAt = Em.emits,
                                                     !.invoked = 0,
                                                     !.invokedBy = 0,
                                                     !.cancelled = FALSE]],
            l)

\* TypedEventEmitter.off(event, l): l is deleted from both Sets
TypedEventEmitter_off(Em, l) ==
    [Em EXCEPT !.listeners = setDelete(@, l),
               !.onceListeners = setDelete(@, l),
               !.objects[l].cancelled = @ \/ has(Em.onceListeners, l)]

\* DisposableImpl.dispose of the Disposable d that on() or once() returned:
\* the first call calls off, a later one does nothing
Disposable_dispose(Em, d) ==
    IF Em.disposables[d].isDisposed THEN Em
    ELSE TypedEventEmitter_off([Em EXCEPT !.disposables[d].isDisposed = TRUE],
                               Em.disposables[d].listener)

\* TypedEventEmitter.removeAllListeners
removeAllListeners(Em) ==
    [Em EXCEPT !.listeners = <<>>,
               !.onceListeners = <<>>,
               !.objects = [l \in DOMAIN @ |->
                                [@[l] EXCEPT !.cancelled = @ \/ has(Em.onceListeners, l)]]]

\* TypedEventEmitter.removeAllListenersForEvent(event), for the one event
\* of the model: the entries of the event in both Maps are deleted
removeAllListenersForEvent(Em) ==
    [Em EXCEPT !.listeners = SubSeq(@, 1, 0),
               !.onceListeners = SubSeq(@, 1, 0),
               !.objects = [l \in DOMAIN @ |->
                                [@[l] EXCEPT !.cancelled = @ \/ has(Em.onceListeners, l)]]]

\* TypedEventEmitter.dispose
TypedEventEmitter_dispose(Em) ==
    IF Em.isDisposed THEN Em
    ELSE removeAllListeners([Em EXCEPT !.isDisposed = TRUE])

\* The start of TypedEventEmitter.emit: a disposed emitter returns at once;
\* else the regular listeners are copied
TypedEventEmitter_emit(Em) ==
    IF Em.isDisposed THEN [Em EXCEPT !.emits = @ + 1]
    ELSE [Em EXCEPT !.emits = @ + 1,
                    !.frames = Append(@, [pc |-> "regular", todo |-> Em.listeners,
                                          emit |-> Em.emits + 1])]

\* The body of listener l, which runs for the first time or again
listenerBody(Em, l, first) ==
    IF first /\ Em.objects[l].does = "emits" THEN TypedEventEmitter_emit(Em)
    ELSE IF first /\ Em.objects[l].does = "registers" /\ Len(Em.disposables) < MaxListeners
    THEN TypedEventEmitter_once(newListener(Em, "plain"), Len(Em.objects) + 1)
    ELSE Em

\* listener(data) for the next listener l of the copy the innermost emit call
\* iterates
invoked(Em, l, f) ==
    listenerBody([Em EXCEPT !.objects[l].runs = @ + 1,
                            !.objects[l].invoked =
                                IF Em.frames[f].pc = "once" THEN @ + 1 ELSE @,
                            !.objects[l].invokedBy =
                                IF Em.frames[f].pc = "once" /\ @ = 0
                                THEN Em.frames[f].emit ELSE @,
                            !.frames[f].todo = Tail(@)],
                 l, Em.objects[l].runs = 0)

\* the innermost emit call returns
returned(Em) == [Em EXCEPT !.frames = SubSeq(@, 1, Len(@) - 1)]

\* The loop over the regular listeners has ended: this.onceListeners.get(event)
\* is read and, if there is a Set, copied
regularDone(Em, f) ==
    IF Em.onceListeners = <<>> THEN returned(Em)
    ELSE [Em EXCEPT !.frames[f] = [pc |-> "once", todo |-> Em.onceListeners,
                                   emit |-> Em.frames[f].emit]]

\* The loop over the once listeners has ended: this.onceListeners.delete(event)
onceDone(Em) == returned([Em EXCEPT !.onceListeners = <<>>])

InitEmitter ==
    /\ docs = <<>>
    /\ document = 0
    /\ selections = <<DefaultSelection>>
    /\ cmds = <<>>
    /\ undoStack = <<>>
    /\ redoStack = <<>>
    /\ maxStackSize = 0
    /\ execLog = <<>>
    /\ phase = "executing"
    /\ observed = <<>>
    /\ lastCall = NoCall
    /\ grouper = NoGrouper
    /\ groupLog = NoGroupLog
    /\ search = NoSearch
    /\ emitted = <<>>
    /\ Unused

EmitterFrame ==
    UNCHANGED <<docs, document, selections, cmds, undoStack, redoStack, maxStackSize, execLog,
                phase, observed, lastCall, grouper, groupLog, search, emitted, options,
                tokenizer, host, registry>>

\* emitter.on(event, listener), called from outside with a new function; a
\* disposed emitter throws, and the function is not kept
On ==
    \E does \in ListenerBodies :
        /\ emitter.frames = <<>>
        /\ Len(emitter.disposables) < MaxListeners
        /\ emitter' = IF emitter.isDisposed THEN emitter
                      ELSE TypedEventEmitter_on(newListener(emitter, does),
                                                Len(emitter.objects) + 1)
        /\ EmitterFrame

\* emitter.once(event, listener), called from outside with a new function
Once ==
    \E does \in ListenerBodies :
        /\ emitter.frames = <<>>
        /\ Len(emitter.disposables) < MaxListeners
        /\ emitter' = IF emitter.isDisposed THEN emitter
                      ELSE TypedEventEmitter_once(newListener(emitter, does),
                                                  Len(emitter.objects) + 1)
        /\ EmitterFrame

\* emitter.on(event, l) or emitter.once(event, l), called from outside with
\* a function that was registered before
RegisterAgain ==
    \E l \in 1..Len(emitter.objects), once \in BOOLEAN :
        /\ emitter.frames = <<>>
        /\ Len(emitter.disposables) < MaxListeners
        /\ emitter' = IF once THEN TypedEventEmitter_once(emitter, l)
                      ELSE TypedEventEmitter_on(emitter, l)
        /\ EmitterFrame

\* emitter.off(event, l), called from outside
Off ==
    \E l \in 1..Len(emitter.objects) :
        /\ emitter.frames = <<>>
        /\ emitter' = TypedEventEmitter_off(emitter, l)
        /\ EmitterFrame

\* d.dispose(), d being a Disposable that on() or once() returned
DisposeRegistration ==
    \E d \in 1..Len(emitter.disposables) :
        /\ emitter.frames = <<>>
        /\ emitter' = Disposable_dispose(emitter, d)
        /\ EmitterFrame

\* emitter.removeAllListeners(), called from outside
RemoveAllListeners ==
    /\ emitter.frames = <<>>
    /\ emitter' = removeAllListeners(emitter)
    /\ EmitterFrame

\* emitter.removeAllListenersForEvent(event), called from outside
RemoveAllListenersForEvent ==
    /\ emitter.frames = <<>>
    /\ emitter' = removeAllListenersForEvent(emitter)
    /\ EmitterFrame

\* emitter.dispose(), called from outside
DisposeEmitter ==
    /\ emitter.frames = <<>>
    /\ emitter' = TypedEventEmitter_dispose(emitter)
    /\ EmitterFrame

\* emitter.emit(event, data), called from outside
Emit ==
    /\ emitter.frames = <<>>
    /\ emitter.emits < MaxEmits
    /\ emitter' = TypedEventEmitter_emit(emitter)
    /\ EmitterFrame

\* The innermost emit call invokes the next listener of its copy
InvokeListener ==
    /\ emitter.frames # <<>>
    /\ emitter.frames[Len(emitter.frames)].todo # <<>>
    /\ emitter' = invoked(emitter, Head(emitter.frames[Len(emitter.frames)].todo),
                          Len(emitter.frames))
    /\ EmitterFrame

\* The innermost emit call has invoked every regular listener
EndRegular ==
    /\ emitter.frames # <<>>
    /\ emitter.frames[Len(emitter.frames)].pc = "regular"
    /\ emitter.frames[Len(emitter.frames)].todo = <<>>
    /\ emitter' = regularDone(emitter, Len(emitter.frames))
    /\ EmitterFrame

\* The innermost emit call has invoked every once listener of its copy
EndOnce ==
    /\ emitter.frames # <<>>
    /\ emitter.frames[Len(emitter.frames)].pc = "once"
    /\ emitter.frames[Len(emitter.frames)].todo = <<>>
    /\ emitter' = onceDone(emitter)
    /\ EmitterFrame

NextEmitter ==
    \/ On
    \/ Once
    \/ RegisterAgain
    \/ Off
    \/ DisposeRegistration
    \/ RemoveAllListeners
    \/ RemoveAllListenersForEvent
    \/ DisposeEmitter
    \/ Emit
    \/ InvokeListener
    \/ EndRegular
    \/ EndOnce

SpecEmitter == InitEmitter /\ [][NextEmitter]_vars

\* Listener l is in the Set of once listeners of the event
Registered(l) == \E i \in 1..Len(emitter.onceListeners) : emitter.onceListeners[i] = l

\* C37: a listener registered with once and not removed by off, by a
\* Disposable, by removeAllListeners or by dispose is never invoked twice
\* by the loops over the once listeners; when it is invoked, it is by the
\* first emit made after its registration; and whenever no emit is in
\* progress, a once-listener still registered has seen no emit since its
\* registration, and one no longer registered has been invoked: none is
\* removed without being invoked.
C37_OnceInvokedExactlyOnce ==
    \A l \in 1..Len(emitter.objects) :
        (emitter.objects[l].isOnce /\ ~emitter.objects[l].cancelled) =>
            /\ emitter.objects[l].invoked <= 1
            /\ emitter.objects[l].invoked = 1 =>
                    emitter.objects[l].invokedBy = emitter.objects[l].registeredAt + 1
            /\ emitter.frames = <<>> =>
                    IF Registered(l)
                    THEN emitter.emits = emitter.objects[l].registeredAt
                    ELSE emitter.objects[l].invoked = 1

----------------------------------------------------------------------------
(* The extension host.  H = [host, registry] is an ExtensionHost with the   *)
(* editor it registers with.  host.extensions holds, in registration order, *)
(* the extensions with their context (the CompositeDisposable of their      *)
(* ExtensionContextImpl) and the number of activate() calls made in the     *)
(* current activation period; host.tasks holds the async calls made so far: *)
(* [fn, arg, step, awaits, result, failed].  A call runs up to its first    *)
(* await when it is made; a pending task is resumed in a later step, once   *)
(* every task it awaits has settled.  activate(context) of an extension     *)
(* registers the commands and language services the extension provides;     *)
(* the promise it returns settles at any later time.  The host emits its    *)
(* events to no listener.  host.activatedExtensions is the Set of the       *)
(* activated ids in insertion order, host.isDisposed the flag of the host   *)
(* as a TypedEventEmitter; registry.isDisposed is the flag of the editor.   *)

Task(fn, arg, step, awaits, result, failed) ==
    [fn |-> fn, arg |-> arg, step |-> step, awaits |-> awaits, result |-> result,
     failed |-> failed]

\* The index in host.extensions of the extension with this id, 0 if none:
\* this.extensions.get(extensionId)
extensionOf(H, id) ==
    IF \E x \in 1..Len(H.host.extensions) : H.host.extensions[x].id = id
    THEN CHOOSE x \in 1..Len(H.host.extensions) : H.host.extensions[x].id = id
    ELSE 0

\* CompositeDisposable.add, for the context of extension x and the disposable
\* of a registration
CompositeDisposable_add(H, x, d) ==
    IF H.host.extensions[x].context.isDisposed
    THEN [H EXCEPT !.registry = disposed(@, d)]
    ELSE [H EXCEPT !.host.extensions[x].context.disposables = Append(@, d)]

\* ExtensionContextImpl.dispose: CompositeDisposable.dispose
Context_dispose(H, x) ==
    IF H.host.extensions[x].context.isDisposed THEN H
    ELSE [H EXCEPT !.registry = disposeEach(@, H.host.extensions[x].context.disposables),
                   !.host.extensions[x].context = [isDisposed |-> TRUE, disposables |-> <<>>]]

\* ExtensionContextImpl.registerCommand / registerLanguageService
Context_register(H, x, item) ==
    CompositeDisposable_add([H EXCEPT !.registry = registered(@, item)], x,
                            Len(H.registry.disposables) + 1)

\* The body of extension.activate(context): the items are registered in
\* order, and a registration that throws (the editor is disposed, or the id
\* is registered already) rejects the promise
RECURSIVE activateBody(_, _, _)
activateBody(H, x, items) ==
    IF items = <<>> THEN [H |-> H, failed |-> FALSE]
    ELSE IF H.registry.isDisposed \/ isRegistered(H.registry, Head(items))
    THEN [H |-> H, failed |-> TRUE]
    ELSE activateBody(Context_register(H, x, Head(items)), x, Tail(items))

\* H with a task added
withTask(H, task) == [H EXCEPT !.host.tasks = Append(@, task)]

\* extension.activate(context) has been called and is awaited
activating(r, id) ==
    withTask(r.H, Task("activateExtension", id, 0, {}, "pending", r.failed))

\* ExtensionHost.activateExtension up to its await
ExtensionHost_activateExtension(H, id) ==
    IF has(H.host.activatedExtensions, id)
    THEN withTask(H, Task("activateExtension", id, 0, {}, "fulfilled", FALSE))
    ELSE IF extensionOf(H, id) = 0
    THEN withTask(H, Task("activateExtension", id, 0, {}, "rejected", FALSE))
    ELSE activating(
            activateBody([H EXCEPT !.host.extensions[extensionOf(H, id)].activations = @ + 1],
                         extensionOf(H, id),
                         H.host.extensions[extensionOf(H, id)].provides),
            id)

\* toActivate.map(id => this.activateExtension(id))
RECURSIVE activateEach(_, _)
activateEach(H, ids) ==
    IF ids = <<>> THEN H
    ELSE activateEach(ExtensionHost_activateExtension(H, Head(ids)), Tail(ids))

\* The loop of activateByEvent over extensions[x..]: the ids to activate
RECURSIVE toActivate(_, _, _)
toActivate(H, event, x) ==
    IF x > Len(H.host.extensions) THEN <<>>
    ELSE (IF /\ ~has(H.host.activatedExtensions, H.host.extensions[x].id)
             /\ event \in H.host.extensions[x].activationEvents
          THEN <<H.host.extensions[x].id>> ELSE <<>>)
         \o toActivate(H, event, x + 1)

\* the end of activateByEvent: await Promise.allSettled of the calls made,
\* which are the tasks after the first `before`
allSettled(H, event, before) ==
    withTask(H, Task("activateByEvent", event, 0, (before + 1)..Len(H.host.tasks),
                     "pending", FALSE))

\* ExtensionHost.activateByEvent up to its await
ExtensionHost_activateByEvent(H, event) ==
    allSettled(activateEach(H, toActivate(H, event, 1)), event, Len(H.host.tasks))

\* the end of registerExtension: the activateExtension call just made is awaited
awaitingLast(H, fn, arg, step) ==
    withTask(H, Task(fn, arg, step, {Len(H.host.tasks)}, "pending", FALSE))

\* An extension as the host keeps it: with its context and no activate() call
Registration(extension) ==
    [id |-> extension.id, activationEvents |-> extension.activationEvents,
     provides |-> extension.provides, hasDeactivate |-> extension.hasDeactivate,
     context |-> [isDisposed |-> FALSE, disposables |-> <<>>], activations |-> 0]

\* ExtensionHost.registerExtension up to its await
ExtensionHost_registerExtension(H, extension) ==
    IF extensionOf(H, extension.id) # 0
    THEN withTask(H, Task("registerExtension", extension.id, 0, {}, "rejected", FALSE))
    ELSE IF extension.activationEvents = {}
    THEN awaitingLast(
            ExtensionHost_activateExtension(
                [H EXCEPT !.host.extensions = Append(@, Registration(extension))],
                extension.id),
            "registerExtension", extension.id, 0)
    ELSE withTask([H EXCEPT !.host.extensions = Append(@, Registration(extension))],
                  Task("registerExtension", extension.id, 0, {}, "fulfilled", FALSE))

\* the end of deactivateExtension: this.activatedExtensions.delete(extensionId);
\* the activation period of the extension ends
deactivated(H, id) ==
    [H EXCEPT !.host.activatedExtensions = setDelete(@, id),
              !.host.extensions[extensionOf(H, id)].activations = 0]

\* deactivateExtension from context.dispose() on, x being the extension
deactivating(H, id, x) ==
    IF H.host.extensions[x].hasDeactivate
    THEN withTask(Context_dispose(H, x),
                  Task("deactivateExtension", id, 0, {}, "pending", FALSE))
    ELSE withTask(deactivated(Context_dispose(H, x), id),
                  Task("deactivateExtension", id, 1, {}, "fulfilled", FALSE))

\* ExtensionHost.deactivateExtension up to its await; step 1 marks a call
\* that found the extension activated
ExtensionHost_deactivateExtension(H, id) ==
    IF ~has(H.host.activatedExtensions, id) \/ extensionOf(H, id) = 0
    THEN withTask(H, Task("deactivateExtension", id, 0, {}, "fulfilled", FALSE))
    ELSE deactivating(H, id, extensionOf(H, id))

\* for (const id of activatedIds) this.deactivateExtension(id): each call
\* runs up to its await, and none is awaited
RECURSIVE deactivateEach(_, _)
deactivateEach(H, ids) ==
    IF ids = <<>> THEN H
    ELSE deactivateEach(ExtensionHost_deactivateExtension(H, Head(ids)), Tail(ids))

\* ExtensionHost.dispose: the activated extensions are deactivated, and the
\* host is disposed as an emitter; its own CompositeDisposable holds nothing
ExtensionHost_dispose(H) ==
    [deactivateEach(H, H.host.activatedExtensions) EXCEPT !.host.isDisposed = TRUE]

\* CodeEditorEngine.dispose of the editor the host registers with, which
\* has no document open: every registration made with it is disposed
Hosted_editorDispose(H) ==
    IF H.registry.isDisposed THEN H
    ELSE disposablesDisposed([H EXCEPT !.registry.isDisposed = TRUE])

\* Every task that task t awaits has settled
Resumable(H, t) ==
    /\ H.host.tasks[t].result = "pending"
    /\ \A a \in H.host.tasks[t].awaits : H.host.tasks[a].result # "pending"

\* Task t settles with `result`
settled(H, t, result) == [H EXCEPT !.host.tasks[t].result = result]

\* BuiltInExtensions.createLanguageExtension(languageId, ...)
createLanguageExtension(languageId) ==
    [id |-> <<"builtin", languageId>>,
     activationEvents |-> {<<"onLanguage", languageId>>},
     provides |-> <<[kind |-> "service", id |-> languageId]>>,
     hasDeactivate |-> FALSE]

\* The languages loadBuiltInExtensions registers an extension for, in order
BuiltInLanguageIds == <<"javascript", "typescript", "python">>

\* Task t goes on to its step-th await, of the call just made
awaitingNext(H, t, step) ==
    [H EXCEPT !.host.tasks[t].step = step, !.host.tasks[t].awaits = {Len(H.host.tasks)}]

\* ExtensibleEditor.loadBuiltInExtensions from its step-th await on: the
\* next extension is registered, and after the last one the extensions of
\* 'onStartup' are activated
loadBuiltInStep(H, t, step) ==
    IF step <= Len(BuiltInLanguageIds)
    THEN awaitingNext(ExtensionHost_registerExtension(
                            H, createLanguageExtension(BuiltInLanguageIds[step])),
                      t, step)
    ELSE IF step = Len(BuiltInLanguageIds) + 1
    THEN awaitingNext(ExtensionHost_activateByEvent(H, <<"onStartup">>), t, step)
    ELSE settled(H, t, "fulfilled")

\* ExtensibleEditor.loadBuiltInExtensions up to its first await
loadBuiltInExtensions(H) ==
    loadBuiltInStep(withTask(H, Task("loadBuiltInExtensions", <<>>, 0, {}, "pending", FALSE)),
                    Len(H.host.tasks) + 1, 1)

\* options.languages.map((lang) => extensionHost.activateByEvent(`onLanguage:${lang}`))
RECURSIVE activateLanguages(_, _)
activateLanguages(H, languages) ==
    IF languages = <<>> THEN H
    ELSE activateLanguages(ExtensionHost_activateByEvent(H, <<"onLanguage", Head(languages)>>),
                           Tail(languages))

\* createEditor({languages, builtInExtensions}) up to its return
createEditor(H, languages, builtInExtensions) ==
    activateLanguages(IF builtInExtensions THEN loadBuiltInExtensions(H) ELSE H, languages)

\* The continuation of pending task t after its await
resumed(H, t) ==
    IF H.host.tasks[t].fn = "activateExtension"
    THEN IF H.host.tasks[t].failed THEN settled(H, t, "rejected")
         ELSE settled([H EXCEPT !.host.activatedExtensions =
                                    IF has(@, H.host.tasks[t].arg) THEN @
                                    ELSE Append(@, H.host.tasks[t].arg)],
                      t, "fulfilled")
    ELSE IF H.host.tasks[t].fn = "deactivateExtension"
    THEN [settled(deactivated(H, H.host.tasks[t].arg), t, "fulfilled")
            EXCEPT !.host.tasks[t].step = 1]
    ELSE IF H.host.tasks[t].fn = "registerExtension"
    THEN settled(H, t, H.host.tasks[CHOOSE a \in H.host.tasks[t].awaits : TRUE].result)
    ELSE IF H.host.tasks[t].fn = "loadBuiltInExtensions"
    THEN IF H.host.tasks[CHOOSE a \in H.host.tasks[t].awaits : TRUE].result = "rejected"
         THEN settled(H, t, "rejected")
         ELSE loadBuiltInStep(H, t, H.host.tasks[t].step + 1)
    ELSE settled(H, t, "fulfilled")


----------------------------------------------------------------------------
(* Specification SpecHost: an ExtensionHost whose owner registers,          *)
(* activates (by id and by event) and deactivates extensions and disposes   *)
(* the host and the editor, making a new call at any time, also while       *)
(* earlier calls are still awaiting.                                        *)

\* The extensions registered: a built-in language extension, and an
\* extension without activation events that provides a command and a
\* language service and has a deactivate()
HostExtensions ==
    { createLanguageExtension("javascript"),
      [id |-> <<"ext", "tools">>, activationEvents |-> {},
       provides |-> <<[kind |-> "command", id |-> "tools.run"],
                      [kind |-> "service", id |-> "notes"]>>,
       hasDeactivate |-> TRUE] }

HostEvents == { <<"onLanguage", "javascript">> }

InitHost ==
    /\ docs = <<>>
    /\ document = 0
    /\ selections = <<DefaultSelection>>
    /\ cmds = <<>>
    /\ undoStack = <<>>
    /\ redoStack = <<>>
    /\ maxStackSize = 0
    /\ execLog = <<>>
    /\ phase = "executing"
    /\ observed = <<>>
    /\ lastCall = NoCall
    /\ grouper = NoGrouper
    /\ groupLog = NoGroupLog
    /\ search = NoSearch
    /\ emitted = <<>>
    /\ Unused

HostFrame ==
    UNCHANGED <<docs, document, selections, cmds, undoStack, redoStack, maxStackSize, execLog,
                phase, observed, grouper, groupLog, search, emitted, options, tokenizer,
                emitter>>

\* The host and the editor's registry together
Hosted == [host |-> host, registry |-> registry]

\* The variables a call on the host or a continuation sets, H being the
\* host and registry afterwards
HostState(H) ==
    /\ host' = H.host
    /\ registry' = H.registry
    /\ HostFrame

\* A call from outside, made while the host may still take calls
HostStep(H) ==
    /\ Len(H.host.tasks) <= MaxHostTasks
    /\ HostState(H)

\* extensionHost.registerExtension(extension)
RegisterExtension ==
    \E extension \in HostExtensions :
        /\ lastCall' = [op |-> "registerExtension", arg |-> extension.id]
        /\ HostStep(ExtensionHost_registerExtension(Hosted, extension))

\* extensionHost.activateExtension(id)
ActivateExtension ==
    \E extension \in HostExtensions :
        /\ lastCall' = [op |-> "activateExtension", arg |-> extension.id]
        /\ HostStep(ExtensionHost_activateExtension(Hosted, extension.id))

\* extensionHost.activateByEvent(event)
ActivateByEvent ==
    \E event \in HostEvents :
        /\ lastCall' = [op |-> "activateByEvent", arg |-> event]
        /\ HostStep(ExtensionHost_activateByEvent(Hosted, event))

\* extensionHost.deactivateExtension(id)
DeactivateExtension ==
    \E extension \in HostExtensions :
        /\ lastCall' = [op |-> "deactivateExtension", arg |-> extension.id]
        /\ HostStep(ExtensionHost_deactivateExtension(Hosted, extension.id))

\* extensionHost.dispose()
DisposeHost ==
    /\ lastCall' = [op |-> "dispose", arg |-> <<"host">>]
    /\ HostStep(ExtensionHost_dispose(Hosted))

\* editor.dispose(), of the editor the host registers with
DisposeEditor ==
    /\ lastCall' = [op |-> "dispose", arg |-> <<"editor">>]
    /\ HostStep(Hosted_editorDispose(Hosted))

\* A pending call continues after its await
ResumeTask ==
    \E t \in 1..Len(host.tasks) :
        /\ Resumable(Hosted, t)
        /\ UNCHANGED lastCall
        /\ HostState(resumed(Hosted, t))

NextHost ==
    \/ RegisterExtension
    \/ ActivateExtension
    \/ ActivateByEvent
    \/ DeactivateExtension
    \/ DisposeHost
    \/ DisposeEditor
    \/ ResumeTask

SpecHost == InitHost /\ [][NextHost]_vars

\* C38: activate() of an extension is invoked at most once per activation
\* period (from its registration or its last completed deactivation on),
\* also when several activateExtension / activateByEvent calls for it
\* overlap while an earlier activate() is still awaiting.
C38_ActivateAtMostOnce ==
    \A x \in 1..Len(host.extensions) : host.extensions[x].activations <= 1

\* Task t has settled in this step as `result`
Completes(t, fn, result) ==
    /\ host'.tasks[t].fn = fn
    /\ host'.tasks[t].result = result
    /\ t <= Len(host.tasks) => host.tasks[t].result = "pending"

\* Every command and language service the extension of task t provides is
\* (registered = TRUE) or is not (FALSE) registered in the editor after the step
Provided(t, present) ==
    \A i \in 1..Len(host'.extensions[extensionOf(Hosted, host'.tasks[t].arg)].provides) :
        isRegistered(registry',
                     host'.extensions[extensionOf(Hosted, host'.tasks[t].arg)].provides[i])
            = present

\* C39: when a deactivateExtension(id) call that found the extension
\* activated completes, none of the commands and language services the
\* extension registered through its context is registered in the editor;
\* and when an activateExtension(id) call that activated the extension
\* completes, also after a deactivation, every command and language
\* service the extension registers in activate() is registered, unless the
\* editor has been disposed.
C39_Reactivation ==
    [][ \A t \in 1..Len(host'.tasks) :
            /\ (Completes(t, "deactivateExtension", "fulfilled") /\ host'.tasks[t].step = 1)
                    => Provided(t, FALSE)
            /\ ( /\ Completes(t, "activateExtension", "fulfilled")
                 /\ t <= Len(host.tasks)
                 /\ ~registry'.isDisposed )
                    => Provided(t, TRUE) ]_vars

----------------------------------------------------------------------------
(* Specification SpecCreate: createEditor(options) is called once and the   *)
(* async calls it has started, none of which it awaits, continue in any     *)
(* order.                                                                   *)

\* The `languages` option: up to MaxLanguages different built-in languages,
\* in any order
LanguageLists ==
    { languages \in UNION { [1..n -> {"javascript", "typescript", "python"}] :
                                n \in 0..MaxLanguages } :
        \A i, j \in 1..Len(languages) : i # j => languages[i] # languages[j] }

\* createEditor({languages, builtInExtensions})
CreateEditor ==
    \E languages \in LanguageLists, builtInExtensions \in BOOLEAN :
        /\ lastCall.op # "createEditor"
        /\ lastCall' = [op |-> "createEditor",
                        arg |-> [languages |-> languages,
                                 builtInExtensions |-> builtInExtensions]]
        /\ HostState(createEditor(Hosted, languages, builtInExtensions))

NextCreate ==
    \/ CreateEditor
    \/ ResumeTask

SpecCreate == InitHost /\ [][NextCreate]_vars

\* C40: once all asynchronous work that createEditor({languages: L}) with
\* built-in extensions enabled has started is settled,
\* editor.getLanguageService(l) is non-null for every l in L (javascript,
\* typescript or python), however that work interleaves.
C40_RequestedLanguagesProvided ==
    ( /\ lastCall.op = "createEditor"
      /\ lastCall.arg.builtInExtensions
      /\ \A t \in 1..Len(host.tasks) : host.tasks[t].result # "pending" ) =>
        \A i \in 1..Len(lastCall.arg.languages) :
            lastCall.arg.languages[i] \in registry.languageServices

====
